---- MODULE Spec2Model ----
(***************************************************************************)
(* Model of the polling client of the marketing portal                     *)
(* (utils/polling.js: backoffIterator, pollForReady, waitAndDownload) and  *)
(* of the page code that starts and cancels polling sessions               *)
(* (pages/Twitter.vue: submitDmList/cancelDm, submitLeads/cancelLeads).    *)
(*                                                                         *)
(* A polling session is one invocation of waitAndDownload.  Its steps are  *)
(* the pieces of code that run between two suspension points (await):      *)
(* the call itself, the arrival of a fetch response or fetch failure, the  *)
(* end of the body read of an unexpected response, the firing of the       *)
(* backoff timer, and the abort of the caller's AbortController.           *)
(***************************************************************************)
EXTENDS Integers, Naturals, Sequences, FiniteSets, TLC

(***************************************************************************)
(* Program constants.                                                      *)
(***************************************************************************)
DefaultMaxAttempts == 60
DefaultCapMs == 15000
StartA == 1000
StartB == 2000

StatusReady == 200
StatusPending == 202
StatusInvalid == 400
StatusExpired == 410
StatusNetwork == 0

\* err.status of 'Polling timed out'
TimeoutStatus == 504

\* it.next().value of a finished generator (undefined; delay == null holds).
Undefined == -1

\* Statuses the client has no branch of its own for (the final else): a
\* server error, and a server-reported gateway timeout, which carries the
\* very number the client uses for its own timeout.
UnexpectedStatuses == {500, TimeoutStatus}

\* The statuses a fetch-result call can come back with in the model.
Statuses == {StatusReady, StatusPending, StatusInvalid, StatusExpired}
                \cup UnexpectedStatuses

(***************************************************************************)
(* Exact arithmetic for the generator's a and b.  They grow like Fibonacci *)
(* numbers and pass 2^31 after about thirty steps; JavaScript numbers hold *)
(* them exactly (they stay below 2^53), so the model keeps them exactly    *)
(* too, as two limbs hi * LimbBase + lo.                                   *)
(***************************************************************************)
LimbBase == 10 ^ 9

Big(n) == [hi |-> n \div LimbBase, lo |-> n % LimbBase]

BigAdd(x, y) ==
    [hi |-> x.hi + y.hi + ((x.lo + y.lo) \div LimbBase),
     lo |-> (x.lo + y.lo) % LimbBase]

\* Math.min(b, capMs) for capMs < LimbBase
BigMin(b, capMs) ==
    IF b.hi > 0 \/ b.lo > capMs THEN capMs ELSE b.lo

(***************************************************************************)
(* backoffIterator: the generator object.                                  *)
(*   state "none"   no generator has been created yet                      *)
(*   state "start"  created, body not yet entered                          *)
(*   state "yield"  suspended at the yield                                 *)
(*   state "done"   the while loop has ended                               *)
(***************************************************************************)
BackoffIterator(maxAttempts, capMs) ==
    [state |-> "start", a |-> Big(0), b |-> Big(0), attempt |-> 0,
     maxAttempts |-> maxAttempts, capMs |-> capMs]

NoIterator ==
    [state |-> "none", a |-> Big(0), b |-> Big(0), attempt |-> 0,
     maxAttempts |-> 0, capMs |-> 0]

\* while (attempt < maxAttempts) { const delay = Math.min(b, capMs); yield delay;
LoopCondShort(g) == g.attempt < g.maxAttempts - 1
LoopCondLong(g) == g.attempt <= g.maxAttempts
LoopCondTwice(g) == g.attempt < 2 * g.maxAttempts
LoopCond(g) == g.attempt < g.maxAttempts

DelayOfUncapped(g) == IF g.b.hi > 0 THEN LimbBase ELSE g.b.lo
DelayOf(g) == BigMin(g.b, g.capMs)

GenLoop(g) ==
    IF LoopCond(g)
    THEN [gen |-> [g EXCEPT !.state = "yield"], value |-> DelayOf(g)]
    ELSE [gen |-> [g EXCEPT !.state = "done"], value |-> Undefined]

\* const next = a + b; a = b; b = next; attempt++;
GenAdvance(g) ==
    [g EXCEPT !.a = g.b, !.b = BigAdd(g.a, g.b), !.attempt = g.attempt + 1]

\* it.next()
GenNext(g) ==
    CASE g.state = "start" ->
           GenLoop([g EXCEPT !.a = Big(StartA), !.b = Big(StartB), !.attempt = 0])
      [] g.state = "yield" -> GenLoop(GenAdvance(g))
      [] OTHER -> [gen |-> g, value |-> Undefined]

(***************************************************************************)
(* State.                                                                  *)
(*                                                                         *)
(* Sessions are the invocations of waitAndDownload; the page starts one    *)
(* for the outreach job and one for the leads job, each with the signal of *)
(* its own AbortController.                                                *)
(***************************************************************************)
Sessions == {1, 2}

VARIABLES
    pc,         \* where each session is suspended: "idle" (not called yet),
                \* "fetching" (await fetch), "reading" (await resp.text()),
                \* "waiting" (await of the backoff timer), "done"
    hasSignal,  \* whether the caller passed a signal
    aborted,    \* signal.aborted of the caller's signal
    attempt,    \* pollForReady's local attempt
    it,         \* the generator objects, by generator identity
    yields,     \* the delays each generator has yielded so far
    timer,      \* the delay of the armed setTimeout, 0 when none is armed
    resp,       \* the status of the response whose body is being read
    outcome,    \* how the session ended: "none" while it runs, "ready",
                \* "rejected", "timedout", "cancelled"
    err,        \* the error waitAndDownload rejected with
    log         \* what the session has done to its environment

pollVars == <<pc, hasSignal, aborted, attempt, timer, resp, outcome, err, log>>

(***************************************************************************)
(* State of the proxy (api/marketing/generate_dm_list.js,                  *)
(* generate_leads.js and api/results.js): one invocation of a handler.     *)
(***************************************************************************)
VARIABLES
    req,        \* the incoming request: endpoint, method, body
    env,        \* process.env.MARKETING_BACKEND_URL, <<>> when it is not set
    hpc,        \* where the handler is: "idle" (no request), "upstream" and
                \* "lookup" (await fetch), "buffering" (await arrayBuffer),
                \* "streaming" (pipe to res), "done" (res.end called)
    validation, \* the handler's validation result (validateCsv / validatePayload)
    upCalls,    \* the fetch calls made to the upstream: endpoint and body
    up,         \* the upstream's answer to the forwarded call
    res,        \* the response: statusCode, headers, body written so far
    reads,      \* what the handler has read: "env", "body", "query"
    stream,     \* the chunks of the upstream body still to come
    parked      \* the locals of a second invocation, suspended at an await

proxyVars == <<req, env, hpc, validation, upCalls, up, res, reads, stream, parked>>

(***************************************************************************)
(* rewriteResultUrl applied on its own to two result locations.            *)
(***************************************************************************)
VARIABLES
    rwIn,       \* the two arguments
    rwOut       \* the two return values

rewriteVars == <<rwIn, rwOut>>

(***************************************************************************)
(* State of the CSV input widget (CsvInput.vue).                           *)
(***************************************************************************)
VARIABLES
    widget      \* its refs mode, text, error, info, rows and the last
                \* 'validity' event it emitted

vars == <<pc, hasSignal, aborted, attempt, it, yields, timer, resp, outcome, err, log,
          req, env, hpc, validation, upCalls, up, res, reads, stream, parked, rwIn, rwOut,
          widget>>

\* no request has come in
NoRequest == [endpoint |-> "none", method |-> "none"]
NoValidation == [ok |-> FALSE, code |-> "none", error |-> "none", count |-> 0]
NoAnswer == [status |-> 0]
NoResponse == [status |-> 0]

\* the locals of an invocation that has not started
IdleFrame ==
    [req |-> NoRequest, hpc |-> "idle", validation |-> NoValidation, upCalls |-> <<>>,
     up |-> NoAnswer, res |-> NoResponse, reads |-> {}, stream |-> <<>>]

ProxyIdle ==
    /\ req = NoRequest
    /\ env = <<>>
    /\ hpc = "idle"
    /\ validation = NoValidation
    /\ upCalls = <<>>
    /\ up = NoAnswer
    /\ res = NoResponse
    /\ reads = {}
    /\ stream = <<>>
    /\ parked = IdleFrame

RewriteIdle ==
    /\ rwIn = <<>>
    /\ rwOut = <<>>

\* the widget as mounted with an empty modelValue; nothing emitted yet
NoValidity == [ok |-> FALSE, reason |-> "none", count |-> 0]
Mounted ==
    [mode |-> "paste", text |-> <<>>, error |-> "", info |-> "", rows |-> 0,
     validity |-> NoValidity]

WidgetIdle == widget = Mounted

NoError == [name |-> "none", status |-> 0]
AbortError == [name |-> "AbortError", status |-> 0]
TypeError == [name |-> "TypeError", status |-> 0]
Error(status) == [name |-> "Error", status |-> status]

\* fetchCalls     calls of fetch
\* waits          backoff timers that ran to their end
\* downloads      calls of triggerBrowserDownload
\* downloadAfter  the number of fetch calls made when the download was triggered
\* readyTicks     calls of onTick with message 'ready'
\* ticks          the statuses onTick was called with since the last fetch call
\* answers        fetch calls that came back, with a response or a network error
\* lastStatus     the status of the last fetch that came back (0: it failed)
\* pendingRun     the number of answers so far while all of them were 202,
\*                -1 once the upstream has answered anything else but a final 200
\* terminal       the upstream has answered 200, 400 or 410
EmptyLog ==
    [fetchCalls |-> 0, waits |-> 0, downloads |-> 0, downloadAfter |-> 0,
     readyTicks |-> 0, ticks |-> <<>>, answers |-> 0, lastStatus |-> -1,
     pendingRun |-> 0, terminal |-> FALSE]

\* onTick({ attempt, status, message })
Tick(lg, status) ==
    [lg EXCEPT !.ticks = Append(@, status),
               !.readyTicks = IF status = StatusReady THEN @ + 1 ELSE @]

\* the upstream's answer, as the environment sees it
Answer(lg, status) ==
    [lg EXCEPT !.answers = @ + 1,
               !.lastStatus = status,
               !.terminal = @ \/ status \in {StatusReady, StatusInvalid, StatusExpired},
               !.pendingRun = IF @ >= 0 /\ status = StatusPending THEN @ + 1
                              ELSE IF status = StatusReady THEN @ ELSE -1]

TypeOK ==
    /\ pc \in [Sessions -> {"idle", "fetching", "reading", "waiting", "done"}]
    /\ hasSignal \in [Sessions -> BOOLEAN]
    /\ aborted \in [Sessions -> BOOLEAN]
    /\ attempt \in [Sessions -> Nat]
    /\ timer \in [Sessions -> Nat]
    /\ outcome \in [Sessions -> {"none", "ready", "rejected", "timedout", "cancelled"}]

(***************************************************************************)
(* pollForReady and waitAndDownload.                                       *)
(***************************************************************************)

\* const it = backoffIterator(): every invocation creates its own generator
ItShared(s) == 1
ItOf(s) == s

\* signal?.aborted
SignalAborted(s) == hasSignal[s] /\ aborted[s]

\* fetch(..., { signal: signal ?? controller.signal }): the signal the fetch
\* call listens to is the caller's; the local controller is never aborted
FetchSignalLocal(s) == FALSE
FetchSignalAborted(s) == IF hasSignal[s] THEN aborted[s] ELSE FALSE

\* if (signal) { ... signal.addEventListener('abort', onAbort, { once: true }) }
OnAbortMissing(s) == FALSE
OnAbortRegistered(s) == hasSignal[s]

\* if (resp.status === 200)
IsReadyAny2xx(status) == status \in 200..299
IsReady(status) == status = StatusReady

\* catch (e) { if (e?.name === 'AbortError') throw e;
RethrownAll(e) == TRUE
Rethrown(e) == e.name = "AbortError"

\* pollForReady throws e; waitAndDownload's await rethrows it to the caller
Throw(s, out, e, lg) ==
    /\ pc' = [pc EXCEPT ![s] = "done"]
    /\ outcome' = [outcome EXCEPT ![s] = out]
    /\ err' = [err EXCEPT ![s] = e]
    /\ timer' = [timer EXCEPT ![s] = 0]
    /\ log' = [log EXCEPT ![s] = lg]

\* return { ready: true }; then in waitAndDownload:
\* if (res?.ready) triggerBrowserDownload(resultUrl); return res;
ReturnReady(s, lg) ==
    /\ pc' = [pc EXCEPT ![s] = "done"]
    /\ outcome' = [outcome EXCEPT ![s] = "ready"]
    /\ timer' = [timer EXCEPT ![s] = 0]
    /\ log' = [log EXCEPT ![s] = [lg EXCEPT !.downloads = @ + 1,
                                            !.downloadAfter = lg.fetchCalls]]
    /\ UNCHANGED err

\* top of for (;;): the abort check, then the fetch call
Iterate(s, lg) ==
    IF SignalAborted(s)
    THEN Throw(s, "cancelled", AbortError, lg)
    ELSE /\ pc' = [pc EXCEPT ![s] = "fetching"]
         /\ timer' = [timer EXCEPT ![s] = 0]
         /\ log' = [log EXCEPT ![s] = [lg EXCEPT !.fetchCalls = @ + 1, !.ticks = <<>>]]
         /\ UNCHANGED <<outcome, err>>

\* const delay = it.next().value; if (delay == null) throw 504;
\* await new Promise(... setTimeout(r, delay) ...)
Backoff(s, lg) ==
    LET r == GenNext(it[ItOf(s)]) IN
    /\ it' = [it EXCEPT ![ItOf(s)] = r.gen]
    /\ yields' = [yields EXCEPT ![ItOf(s)] =
                     IF r.value = Undefined THEN @ ELSE Append(@, r.value)]
    /\ IF r.value = Undefined
       THEN Throw(s, "timedout", Error(TimeoutStatus), lg)
       ELSE /\ pc' = [pc EXCEPT ![s] = "waiting"]
            /\ timer' = [timer EXCEPT ![s] = r.value]
            /\ log' = [log EXCEPT ![s] = lg]
            /\ UNCHANGED <<outcome, err>>

\* the catch block of the loop body
Catch(s, e, lg) ==
    IF Rethrown(e)
    THEN /\ Throw(s, IF e.name = "AbortError" THEN "cancelled" ELSE "rejected", e, lg)
         /\ UNCHANGED <<it, yields>>
    ELSE Backoff(s, Tick(lg, StatusNetwork))

\* The caller invokes waitAndDownload(resultUrl, { signal, onTick }).
Start(s) ==
    /\ pc[s] = "idle"
    /\ it' = [it EXCEPT ![ItOf(s)] = BackoffIterator(DefaultMaxAttempts, DefaultCapMs)]
    /\ yields' = [yields EXCEPT ![ItOf(s)] = <<>>]
    /\ attempt' = [attempt EXCEPT ![s] = 0]
    /\ Iterate(s, log[s])
    /\ UNCHANGED <<hasSignal, aborted, resp>>
    /\ UNCHANGED <<proxyVars, rewriteVars, widget>>

\* The fetch promise resolves with a response of the given status.
FetchResponds(s, status) ==
    /\ pc[s] = "fetching"
    /\ ~FetchSignalAborted(s)
    /\ LET lg == Answer(log[s], status) IN
       IF IsReady(status)
       THEN /\ ReturnReady(s, Tick(lg, status))
            /\ UNCHANGED <<it, yields, resp>>
       ELSE IF status = StatusPending
       THEN /\ Backoff(s, Tick(lg, status))
            /\ UNCHANGED resp
       ELSE IF status = StatusInvalid \/ status = StatusExpired
       THEN /\ Catch(s, Error(status), Tick(lg, status))
            /\ UNCHANGED resp
       ELSE /\ pc' = [pc EXCEPT ![s] = "reading"]
            /\ resp' = [resp EXCEPT ![s] = status]
            /\ log' = [log EXCEPT ![s] = lg]
            /\ UNCHANGED <<it, yields, timer, outcome, err>>
    /\ UNCHANGED <<hasSignal, aborted, attempt>>
    /\ UNCHANGED <<proxyVars, rewriteVars, widget>>

\* resp.text().catch(() => '') settles; the else branch ticks and throws.
BodyRead(s) ==
    /\ pc[s] = "reading"
    /\ Catch(s, Error(resp[s]), Tick(log[s], resp[s]))
    /\ resp' = [resp EXCEPT ![s] = 0]
    /\ UNCHANGED <<hasSignal, aborted, attempt>>
    /\ UNCHANGED <<proxyVars, rewriteVars, widget>>

\* The fetch promise rejects with a network error.
FetchFails(s) ==
    /\ pc[s] = "fetching"
    /\ ~FetchSignalAborted(s)
    /\ Catch(s, TypeError, Answer(log[s], StatusNetwork))
    /\ UNCHANGED <<hasSignal, aborted, attempt, resp>>
    /\ UNCHANGED <<proxyVars, rewriteVars, widget>>

\* The fetch promise rejects because its signal was aborted.
FetchAborted(s) ==
    /\ pc[s] = "fetching"
    /\ FetchSignalAborted(s)
    /\ Catch(s, AbortError, log[s])
    /\ UNCHANGED <<hasSignal, aborted, attempt, resp>>
    /\ UNCHANGED <<proxyVars, rewriteVars, widget>>

\* The backoff timer fires: attempt++, and the loop goes round.
TimerFires(s) ==
    /\ pc[s] = "waiting"
    /\ attempt' = [attempt EXCEPT ![s] = @ + 1]
    /\ Iterate(s, [log[s] EXCEPT !.waits = @ + 1])
    /\ UNCHANGED <<hasSignal, aborted, it, yields, resp>>
    /\ UNCHANGED <<proxyVars, rewriteVars, widget>>

\* cancelDm / cancelLeads: controller.abort().  The abort event runs the
\* onAbort listener of a wait in progress: clearTimeout, reject.
Abort(s) ==
    /\ hasSignal[s]
    /\ ~aborted[s]
    /\ aborted' = [aborted EXCEPT ![s] = TRUE]
    /\ IF pc[s] = "waiting" /\ OnAbortRegistered(s)
       THEN Throw(s, "cancelled", AbortError, log[s])
       ELSE UNCHANGED <<pc, outcome, err, timer, log>>
    /\ UNCHANGED <<hasSignal, attempt, it, yields, resp>>
    /\ UNCHANGED <<proxyVars, rewriteVars, widget>>

Step(s) ==
    \/ Start(s)
    \/ \E status \in Statuses : FetchResponds(s, status)
    \/ FetchFails(s)
    \/ FetchAborted(s)
    \/ BodyRead(s)
    \/ TimerFires(s)
    \/ Abort(s)

PollInit(active) ==
    /\ pc = [s \in Sessions |-> "idle"]
    /\ hasSignal \in [Sessions -> BOOLEAN]
    /\ \A s \in Sessions \ active : ~hasSignal[s]
    /\ aborted = [s \in Sessions |-> FALSE]
    /\ attempt = [s \in Sessions |-> 0]
    /\ it = [s \in Sessions |-> NoIterator]
    /\ yields = [s \in Sessions |-> <<>>]
    /\ timer = [s \in Sessions |-> 0]
    /\ resp = [s \in Sessions |-> 0]
    /\ outcome = [s \in Sessions |-> "none"]
    /\ err = [s \in Sessions |-> NoError]
    /\ log = [s \in Sessions |-> EmptyLog]

InitOf(active) == PollInit(active) /\ ProxyIdle /\ RewriteIdle /\ WidgetIdle

\* One polling session, followed to its end.
Init == InitOf({1})
Next == Step(1)
Spec == Init /\ [][Next]_vars

(***************************************************************************)
(* Two polling sessions side by side, as the page runs them: the outreach  *)
(* job's and the leads job's, each with its own result location and its    *)
(* own AbortController.  Session 1 is followed to its end; session 2 is    *)
(* followed through its first ConcAttempts rounds.                         *)
(***************************************************************************)
ConcAttempts == 1

InitTwo == InitOf(Sessions) /\ \A s \in Sessions : hasSignal[s]
NextTwo ==
    \/ Step(1)
    \/ Step(2) /\ attempt'[2] <= ConcAttempts
SpecTwo == InitTwo /\ [][NextTwo]_vars

(***************************************************************************)
(* The backoff generator on its own: two generator objects, created and    *)
(* advanced in any order.                                                  *)
(***************************************************************************)
\* backoffIterator()
NewIterator(i) ==
    /\ it' = [it EXCEPT ![i] = BackoffIterator(DefaultMaxAttempts, DefaultCapMs)]
    /\ yields' = [yields EXCEPT ![i] = <<>>]
    /\ UNCHANGED <<pollVars, proxyVars, rewriteVars, widget>>

\* it.next()
IterNext(i) ==
    /\ it[i].state # "none"
    /\ LET r == GenNext(it[i]) IN
       /\ it' = [it EXCEPT ![i] = r.gen]
       /\ yields' = [yields EXCEPT ![i] =
                        IF r.value = Undefined THEN @ ELSE Append(@, r.value)]
    /\ UNCHANGED <<pollVars, proxyVars, rewriteVars, widget>>

InitBackoff == InitOf({})
NextBackoff == \E i \in Sessions : NewIterator(i) \/ IterNext(i)
SpecBackoff == InitBackoff /\ [][NextBackoff]_vars

(***************************************************************************)
(* Claims about the backoff generator (SpecBackoff).                       *)
(***************************************************************************)
ClaimedFirstSix == <<2000, 2000, 3000, 5000, 8000, 13000>>

\* C4: the first six delays a generator created with the defaults yields
\* are 2000, 2000, 3000, 5000, 8000, 13000, in that order.
C4_FirstSixDelays ==
    \A i \in Sessions :
        \A k \in 1..Len(yields[i]) :
            k <= Len(ClaimedFirstSix) => yields[i][k] = ClaimedFirstSix[k]

\* C5: a generator yields exactly maxAttempts delays and is then finished;
\* every delay is a positive integer, none exceeds capMs, and the sequence
\* never decreases; every generator object starts from the beginning and
\* yields the same sequence whatever the other one has done.
C5_BackoffSequence ==
    \A i \in Sessions :
        /\ Len(yields[i]) <= DefaultMaxAttempts
        /\ it[i].state = "done" <=> Len(yields[i]) = DefaultMaxAttempts /\ it[i].attempt = DefaultMaxAttempts
        /\ it[i].state = "start" => yields[i] = <<>>
        /\ it[i].state = "yield" => Len(yields[i]) = it[i].attempt + 1
        /\ \A k \in 1..Len(yields[i]) :
              /\ yields[i][k] \in Nat \ {0}
              /\ yields[i][k] <= DefaultCapMs
              /\ k > 1 => yields[i][k - 1] <= yields[i][k]
        /\ \A j \in Sessions :
              \A k \in 1..Len(yields[i]) :
                 k <= Len(yields[j]) => yields[i][k] = yields[j][k]

\* one generator run to its end, the other created anew and seven delays in
C5_Witness ==
    /\ it[1].state = "done"
    /\ Len(yields[1]) = DefaultMaxAttempts
    /\ yields[1][DefaultMaxAttempts] = DefaultCapMs
    /\ it[2].state = "yield"
    /\ Len(yields[2]) = 7

(***************************************************************************)
(* Claims about a polling session (Spec).                                  *)
(***************************************************************************)
Rejections == {StatusInvalid, StatusExpired}

\* the delays the session's generator has handed out
Consumed(s) == Len(yields[ItOf(s)])

\* C1: when a fetch call comes back with 400 or 410 the session is over at
\* once, Rejected: it has thrown an error with that status, has consumed no
\* backoff delay for it, makes no further fetch call and has not invoked the
\* Download Trigger.
C1_RejectedAtOnce ==
    \A s \in Sessions :
        log[s].lastStatus \in Rejections =>
            /\ pc[s] = "done"
            /\ outcome[s] = "rejected"
            /\ err[s] = Error(log[s].lastStatus)
            /\ Consumed(s) = log[s].waits
            /\ log[s].fetchCalls = log[s].answers
            /\ log[s].downloads = 0

\* C2: a session that has ended after n <= 60 answers of 202 and nothing
\* else but a closing 200, with no cancellation, has resolved ready: it made
\* n + 1 fetch calls, sat out n backoff delays (and drew no more than n), and
\* invoked the Download Trigger once, after the last fetch call had come
\* back with 200.
C2_PendingThenReady ==
    \A s \in Sessions :
        (pc[s] = "done" /\ ~aborted[s] /\ log[s].pendingRun \in 0..DefaultMaxAttempts) =>
            LET n == log[s].pendingRun IN
            /\ outcome[s] = "ready"
            /\ err[s] = NoError
            /\ log[s].lastStatus = StatusReady
            /\ log[s].fetchCalls = n + 1
            /\ log[s].answers = n + 1
            /\ log[s].waits = n
            /\ Consumed(s) = n
            /\ log[s].downloads = 1
            /\ log[s].downloadAfter = n + 1

\* sixty pending answers, then success
C2_Witness ==
    /\ pc[1] = "done"
    /\ outcome[1] = "ready"
    /\ ~aborted[1]
    /\ log[1].pendingRun = DefaultMaxAttempts
    /\ log[1].downloads = 1

\* C3: the Download Trigger is invoked at most once in a session, and only
\* when the session's last fetch came back with 200 and the session
\* resolved ready; a session that ended Rejected, Timed Out or Cancelled
\* has not invoked it.
C3_DownloadOnlyWhenReady ==
    \A s \in Sessions :
        /\ log[s].downloads <= 1
        /\ log[s].downloads = 1 =>
              /\ log[s].lastStatus = StatusReady
              /\ log[s].downloadAfter = log[s].fetchCalls
              /\ log[s].answers = log[s].fetchCalls
              /\ outcome[s] = "ready"
              /\ pc[s] = "done"
        /\ outcome[s] \in {"rejected", "timedout", "cancelled"} => log[s].downloads = 0
        /\ outcome[s] = "ready" => log[s].downloads = 1

\* a download after a run of mixed answers
C3_Witness ==
    /\ log[1].downloads = 1
    /\ log[1].pendingRun = -1
    /\ log[1].fetchCalls >= 3

\* C6: a session in which no fetch came back with a terminal status and
\* that was not cancelled ends only Timed Out, and it is Timed Out exactly
\* when its generator is exhausted: after 61 fetch calls and 60 delays sat
\* out, with an error of status 504 (not 400 or 410) and no download.  The
\* status a server reports never makes a session Timed Out.
C6_TimedOutOnlyByExhaustion ==
    \A s \in Sessions :
        /\ (pc[s] = "done" /\ ~log[s].terminal /\ ~aborted[s]) => outcome[s] = "timedout"
        /\ outcome[s] = "timedout" <=> it[ItOf(s)].state = "done"
        /\ outcome[s] = "timedout" =>
              /\ pc[s] = "done"
              /\ err[s] = Error(TimeoutStatus)
              /\ err[s].status \notin Rejections
              /\ Consumed(s) = DefaultMaxAttempts
              /\ log[s].waits = DefaultMaxAttempts
              /\ log[s].fetchCalls = DefaultMaxAttempts + 1
              /\ log[s].answers = DefaultMaxAttempts + 1
              /\ log[s].downloads = 0
        /\ (log[s].lastStatus = TimeoutStatus /\ log[s].answers <= DefaultMaxAttempts)
              => outcome[s] # "timedout"

\* timed out after 61 pending answers
C6_Witness ==
    /\ outcome[1] = "timedout"
    /\ ~aborted[1]
    /\ log[1].pendingRun = DefaultMaxAttempts + 1

\* a fetch that came back with neither 200, 202, 400 nor 410 (0: it failed)
Transient(status) ==
    status \notin {StatusReady, StatusPending, StatusInvalid, StatusExpired}

\* the session has drawn one more delay and waits for it, the status having
\* been reported to onTick; or no delay was left
RetriedOrExhausted(s) ==
    IF Consumed(s) < DefaultMaxAttempts
    THEN /\ pc'[s] = "waiting"
         /\ outcome'[s] = "none"
         /\ Len(yields'[ItOf(s)]) = Consumed(s) + 1
         /\ timer'[s] = yields'[ItOf(s)][Consumed(s) + 1]
         /\ \E k \in 1..Len(log'[s].ticks) : log'[s].ticks[k] = log'[s].lastStatus
         /\ log'[s].fetchCalls = log[s].fetchCalls
    ELSE outcome'[s] = "timedout"

C8_CancelInterruptsWait ==
    [][\A s \in Sessions :
          /\ (pc[s] = "waiting" /\ ~aborted[s] /\ aborted'[s]) =>
                 /\ pc'[s] = "done"
                 /\ outcome'[s] = "cancelled"
                 /\ err'[s] = AbortError
                 /\ timer'[s] = 0
                 /\ log'[s].waits = log[s].waits
                 /\ log'[s].fetchCalls = log[s].fetchCalls
          /\ (pc[s] \in {"idle", "waiting"} /\ aborted[s] /\ pc'[s] # pc[s]) =>
                 /\ pc'[s] = "done"
                 /\ outcome'[s] = "cancelled"
                 /\ err'[s] = AbortError
                 /\ log'[s].fetchCalls = log[s].fetchCalls
          /\ pc[s] = "done" => pc'[s] = "done" /\ log'[s] = log[s]
      ]_vars

\* cancelled in the third wait: three delays drawn, two sat out
C8_Witness ==
    /\ outcome[1] = "cancelled"
    /\ err[1] = AbortError
    /\ Consumed(1) = 3
    /\ log[1].waits = 2
    /\ log[1].fetchCalls = 3
    /\ log[1].answers = 3

\* C9: once the signal is aborted, no later step of the session reports
\* ready to the progress callback, invokes the Download Trigger or resolves
\* the session ready, whether the abort came before the call, while a fetch
\* was in flight, during a body read or during a wait.
C9_NoLateReady ==
    [][\A s \in Sessions :
          aborted[s] =>
             /\ log'[s].readyTicks = log[s].readyTicks
             /\ log'[s].downloads = log[s].downloads
             /\ outcome'[s] = "ready" => outcome[s] = "ready"
      ]_vars

\* cancelled with the second fetch call in flight and never answered
C9_Witness ==
    /\ outcome[1] = "cancelled"
    /\ aborted[1]
    /\ log[1].fetchCalls = 2
    /\ log[1].answers = 1
    /\ log[1].downloads = 0

(***************************************************************************)
(* Claim about two concurrent sessions (SpecTwo).                          *)
(***************************************************************************)
\* everything a session owns
SessionState(s) ==
    <<pc[s], hasSignal[s], aborted[s], attempt[s], it[ItOf(s)], yields[ItOf(s)],
      timer[s], resp[s], outcome[s], err[s], log[s]>>

\* C10: two sessions share no state: a step that changes anything of one
\* session (its cancellation, its end by timeout included) leaves the
\* attempt counter, the backoff position, the outcome and all else of the
\* other session as it was.
C10_SessionsIndependent ==
    [][\A s \in Sessions : \A t \in Sessions \ {s} :
          SessionState(s)' # SessionState(s) => SessionState(t)' = SessionState(t)
      ]_vars

\* session 1 has timed out while session 2 was cancelled in its second wait
C10_Witness ==
    /\ outcome[1] = "timedout"
    /\ outcome[2] = "cancelled"
    /\ attempt[2] = 1
    /\ Consumed(2) = 2
    /\ Consumed(1) = DefaultMaxAttempts

(***************************************************************************)
(* Text.  A JavaScript string is modelled as the sequence of its           *)
(* characters, each a one-character string; BOM stands for U+FEFF.         *)
(***************************************************************************)
LF == "\n"
CR == "\r"
TAB == "\t"
BOM == "U+FEFF"

\* the characters of a string literal
Chars(s) == [i \in 1..Len(s) |-> SubSeq(s, i, i)]

\* the characters String.prototype.trim removes (those of the model's alphabet)
Whitespace == {" ", TAB, CR, LF, BOM}

\* !line.trim(), line.trim().length === 0
IsBlank(line) == \A i \in 1..Len(line) : line[i] \in Whitespace

\* line.trim()
TrimNone(line) == line
Trim(line) ==
    IF IsBlank(line) THEN <<>>
    ELSE LET solid == {i \in 1..Len(line) : line[i] \notin Whitespace}
             first == CHOOSE i \in solid : \A j \in solid : i <= j
             last == CHOOSE i \in solid : \A j \in solid : j <= i
         IN SubSeq(line, first, last)

\* line.endsWith(suffix) for a one-character suffix
EndsWith(line, c) == Len(line) > 0 /\ line[Len(line)] = c

\* text.split('\n') of the characters lo..hi of t, by halving
RECURSIVE SplitLF(_, _, _)
SplitLF(t, lo, hi) ==
    IF lo > hi THEN << <<>> >>
    ELSE IF lo = hi THEN (IF t[lo] = LF THEN << <<>>, <<>> >> ELSE << <<t[lo]>> >>)
    ELSE LET mid == (lo + hi) \div 2
             l == SplitLF(t, lo, mid)
             r == SplitLF(t, mid + 1, hi)
         IN SubSeq(l, 1, Len(l) - 1) \o << l[Len(l)] \o r[1] >> \o Tail(r)

\* text.split(/\r?\n/): a CR right before the LF belongs to the separator
SplitLines(t) ==
    LET raw == SplitLF(t, 1, Len(t)) IN
    [k \in 1..Len(raw) |->
        IF k < Len(raw) /\ EndsWith(raw[k], CR)
        THEN SubSeq(raw[k], 1, Len(raw[k]) - 1)
        ELSE raw[k]]

\* lines.join(sep) of the lines lo..hi, by halving
RECURSIVE JoinRange(_, _, _, _)
JoinRange(lines, sep, lo, hi) ==
    IF lo > hi THEN <<>>
    ELSE IF lo = hi THEN lines[lo]
    ELSE LET mid == (lo + hi) \div 2 IN
         JoinRange(lines, sep, lo, mid) \o sep \o JoinRange(lines, sep, mid + 1, hi)

Join(lines, sep) == JoinRange(lines, sep, 1, Len(lines))

\* csvText.replace(/^\uFEFF/, '')
StripBom(text) == IF Len(text) > 0 /\ text[1] = BOM THEN Tail(text) ELSE text

(***************************************************************************)
(* generate_dm_list.js: validateCsv and the header expansion.              *)
(***************************************************************************)
Header3 == Chars("userName,userLink,directMessage")
Header2 == Chars("userName,userLink")

ALLOWED_HEADERS == <<Header3, Header2>>
MAX_TARGETS == 300

\* ALLOWED_HEADERS.includes(header)
IncludesHeader(header) == \E k \in 1..Len(ALLOWED_HEADERS) : ALLOWED_HEADERS[k] = header

\* lines.slice(1).filter((l) => l.trim().length > 0).length
CountRows(lines) == Cardinality({k \in 2..Len(lines) : ~IsBlank(lines[k])})

\* if (count > MAX_TARGETS)
TooManyAtLimit(count) == count >= MAX_TARGETS
TooMany(count) == count > MAX_TARGETS

Invalid(code, error) == [ok |-> FALSE, code |-> code, error |-> error, count |-> 0]
Valid(count) == [ok |-> TRUE, code |-> "none", error |-> "none", count |-> count]

validateCsv(csvText) ==
    LET text == StripBom(csvText)
        lines == SplitLines(text)
        header == Trim(lines[1])
        count == CountRows(lines)
    IN  IF ~IncludesHeader(header)
        THEN Invalid("INVALID_HEADER", "Invalid header. Expected one of: ...")
        ELSE IF count = 0 THEN Invalid("EMPTY_ROWS", "No rows found after header.")
        ELSE IF TooMany(count)
        THEN Invalid("TOO_MANY_ROWS", "Too many rows: ${count}. Maximum allowed is ${MAX_TARGETS}.")
        ELSE Valid(count)

\* transformed.push(line.endsWith(',') ? line : line + ',')
ExpandRowNever(line) == line
ExpandRow(line) == IF EndsWith(line, ",") THEN line ELSE line \o <<",">>

\* if (header === 'userName,userLink')
NeedsExpansionAny(header) == TRUE
NeedsExpansion(header) == header = Header2

\* let csvToSend = csvText; ... csvToSend = transformed.join('\n')
csvToSend(csvText) ==
    LET lines == SplitLines(StripBom(csvText))
        header == Trim(lines[1])
    IN  IF NeedsExpansion(header)
        THEN Join([i \in 1..Len(lines) |->
                      IF i = 1 THEN Header3
                      ELSE IF IsBlank(lines[i]) THEN lines[i]
                      ELSE ExpandRow(lines[i])],
                  <<LF>>)
        ELSE csvText

(***************************************************************************)
(* The CSV bodies a caller submits.  A body is built from a shape: an      *)
(* optional byte-order mark, a first line, a line separator and runs of    *)
(* lines of one kind each.                                                 *)
(***************************************************************************)
MaxLines == 2
Excess == 1

LineKinds == {"row", "rowc", "empty", "space"}

LineOf(kind) ==
    CASE kind = "row" -> Chars("a,b")
      [] kind = "rowc" -> Chars("a,b,")
      [] kind = "empty" -> <<>>
      [] kind = "space" -> <<" ", TAB>>

FirstLines == {"three", "two", "twoPadded", "threePadded", "twoComma", "short", "none"}

FirstLineOf(form) ==
    CASE form = "three" -> Header3
      [] form = "two" -> Header2
      [] form = "twoPadded" -> <<" ">> \o Header2 \o <<TAB>>
      [] form = "threePadded" -> <<TAB>> \o Header3 \o <<" ">>
      [] form = "twoComma" -> Header2 \o <<",">>
      [] form = "short" -> Chars("userName")
      [] form = "none" -> <<>>

Separators == {<<LF>>, <<CR, LF>>}

\* the lines of a sequence of runs <<kind, times>>, by halving
RECURSIVE Repeat(_, _)
Repeat(line, times) ==
    IF times = 0 THEN <<>>
    ELSE IF times = 1 THEN <<line>>
    ELSE Repeat(line, times \div 2) \o Repeat(line, times - times \div 2)

RECURSIVE RunLines(_, _)
RunLines(runs, k) ==
    IF k > Len(runs) THEN <<>>
    ELSE Repeat(LineOf(runs[k][1]), runs[k][2]) \o RunLines(runs, k + 1)

BuildCsv(shape) ==
    (IF shape.bom THEN <<BOM>> ELSE <<>>)
    \o Join(<<FirstLineOf(shape.first)>> \o RunLines(shape.runs, 1), shape.sep)

\* every sequence of at most MaxLines lines after the first line
RECURSIVE KindSeqs(_)
KindSeqs(n) ==
    IF n = 0 THEN { <<>> }
    ELSE LET shorter == KindSeqs(n - 1) IN
         shorter \cup {Append(s, <<k, 1>>) : s \in {x \in shorter : Len(x) = n - 1},
                                             k \in LineKinds}

\* every shape with at most MaxLines lines after the first, and shapes with about
\* MAX_TARGETS rows, with and without blank lines among them
Shapes ==
    LET NearLimit == (MAX_TARGETS - Excess)..(MAX_TARGETS + Excess)
        LargeRuns ==
            {<< <<"row", n>> >> : n \in NearLimit}
            \cup {<< <<"row", 1>>, <<"space", 1>>, <<"rowc", n - 1>>, <<"empty", 1>> >> :
                     n \in NearLimit}
    IN  [bom : BOOLEAN, first : FirstLines, sep : Separators, runs : KindSeqs(MaxLines)]
        \cup [bom : {FALSE}, first : {"three", "two", "short"}, sep : Separators,
              runs : LargeRuns]

\* what a shape says about its body, without looking at the characters
ShapeRows(shape) ==
    LET RECURSIVE Sum(_)
        Sum(k) == IF k > Len(shape.runs) THEN 0
                  ELSE (IF shape.runs[k][1] \in {"row", "rowc"} THEN shape.runs[k][2] ELSE 0)
                       + Sum(k + 1)
    IN Sum(1)

ShapeLines(shape) ==
    LET RECURSIVE Sum(_)
        Sum(k) == IF k > Len(shape.runs) THEN 0 ELSE shape.runs[k][2] + Sum(k + 1)
    IN 1 + Sum(1)

ShapeHeader(shape) ==
    CASE shape.first \in {"three", "threePadded"} -> "three"
      [] shape.first \in {"two", "twoPadded"} -> "two"
      [] OTHER -> "bad"

(***************************************************************************)
(* rewriteResultUrl.  JSON values are tagged records [t, v]; a string's v  *)
(* is its characters, and "absent" stands for undefined.                   *)
(***************************************************************************)
Absent == [t |-> "absent", v |-> <<>>]
Null == [t |-> "null", v |-> <<>>]
Str(chars) == [t |-> "str", v |-> chars]
Num(digits) == [t |-> "num", v |-> Chars(digits)]

\* s.indexOf(c) over the characters from..Len(s); 0 when there is none
IndexFrom(s, c, from) ==
    LET hits == {i \in from..Len(s) : s[i] = c} IN
    IF hits = {} THEN 0 ELSE CHOOSE i \in hits : \A j \in hits : i <= j

StartsWith(s, prefix) == Len(s) >= Len(prefix) /\ SubSeq(s, 1, Len(prefix)) = prefix

\* s.split(c), the pieces between the occurrences of c
RECURSIVE SplitOn(_, _)
SplitOn(s, c) ==
    LET i == IndexFrom(s, c, 1) IN
    IF i = 0 THEN <<s>>
    ELSE <<SubSeq(s, 1, i - 1)>> \o SplitOn(SubSeq(s, i + 1, Len(s)), c)

\* the percent escapes of the characters in use: <<character, two hex digits>>
Escapes ==
    { <<"/", <<"2", "F">> >>, <<"%", <<"2", "5">> >>, <<"+", <<"2", "B">> >>,
      <<" ", <<"2", "0">> >>, <<"#", <<"2", "3">> >>, <<"&", <<"2", "6">> >>,
      <<"=", <<"3", "D">> >>, <<"?", <<"3", "F">> >>, <<":", <<"3", "A">> >> }

\* encodeURIComponent(s): letters, digits and - _ . ! ~ * ' ( ) stay
RECURSIVE encodeURIComponent(_)
encodeURIComponent(s) ==
    IF s = <<>> THEN <<>>
    ELSE (IF \E e \in Escapes : e[1] = Head(s)
          THEN <<"%">> \o (CHOOSE e \in Escapes : e[1] = Head(s))[2]
          ELSE <<Head(s)>>)
         \o encodeURIComponent(Tail(s))

\* the escapes the URL parser writes into a query: space and ' (and others not in use)
QueryEscapes == { <<" ", <<"2", "0">> >>, <<"'", <<"2", "7">> >> }

Decodable == Escapes \cup QueryEscapes

\* percent-decoding: %XY becomes its character, any other % stays
RECURSIVE PercentDecode(_)
PercentDecode(s) ==
    IF s = <<>> THEN <<>>
    ELSE IF Head(s) = "%" /\ Len(s) >= 3 /\ \E e \in Decodable : e[2] = <<s[2], s[3]>>
    THEN <<(CHOOSE e \in Decodable : e[2] = <<s[2], s[3]>>)[1]>>
         \o PercentDecode(SubSeq(s, 4, Len(s)))
    ELSE <<Head(s)>> \o PercentDecode(Tail(s))

\* the decoding URLSearchParams applies to a name or a value: + is a space
FormDecode(s) == PercentDecode([i \in 1..Len(s) |-> IF s[i] = "+" THEN " " ELSE s[i]])

\* new URL(s): parses when s has scheme http or https and a host; throws otherwise
UrlParses(s) ==
    \E prefix \in {Chars("https://"), Chars("http://")} :
        /\ StartsWith(s, prefix)
        /\ Len(s) > Len(prefix)
        /\ s[Len(prefix) + 1] \notin {"/", "?", "#"}

\* u.search without its "?": between the first "?" and the first "#"
SearchOf(s) ==
    LET hash == IndexFrom(s, "#", 1)
        before == IF hash = 0 THEN s ELSE SubSeq(s, 1, hash - 1)
        q == IndexFrom(before, "?", 1)
    IN IF q = 0 THEN <<>> ELSE SubSeq(before, q + 1, Len(before))

\* the name=value pairs of a query, decoded, in order
SearchParams(query) ==
    LET pieces == SplitOn(query, "&")
        filled == SelectSeq(pieces, LAMBDA piece : piece # <<>>)
    IN [k \in 1..Len(filled) |->
           LET eq == IndexFrom(filled[k], "=", 1) IN
           IF eq = 0 THEN <<FormDecode(filled[k]), <<>> >>
           ELSE <<FormDecode(SubSeq(filled[k], 1, eq - 1)),
                  FormDecode(SubSeq(filled[k], eq + 1, Len(filled[k])))>>]

TokenName == Chars("token")

\* u.searchParams.get('token'): the first value, Null when there is none
SearchParamsGet(query) ==
    LET params == SearchParams(query)
        named == {k \in 1..Len(params) : params[k][1] = TokenName}
    IN IF named = {} THEN Null
       ELSE Str(params[CHOOSE k \in named : \A j \in named : k <= j][2])

\* /[?&]token=([^&]+)/.exec(s): the capture of the leftmost match, Null without one
TokenRegex(s) ==
    LET starts == {i \in 1..Len(s) :
                      /\ s[i] \in {"?", "&"}
                      /\ Len(s) >= i + 7
                      /\ SubSeq(s, i + 1, i + 6) = TokenName \o <<"=">>
                      /\ s[i + 7] # "&"}
    IN IF starts = {} THEN Null
       ELSE LET i == CHOOSE k \in starts : \A j \in starts : k <= j
                amp == IndexFrom(s, "&", i + 7)
            IN Str(SubSeq(s, i + 7, IF amp = 0 THEN Len(s) ELSE amp - 1))

ResultsPath == Chars("/api/results")
WithToken(token) == ResultsPath \o Chars("?token=") \o encodeURIComponent(token)

\* const token = u.searchParams.get('token'); if (token) return ...
StrictToken(resultUrl) ==
    IF resultUrl.t = "str" /\ UrlParses(resultUrl.v)
    THEN SearchParamsGet(SearchOf(resultUrl.v))
    ELSE Null

\* /[?&]token=([^&]+)/.exec(resultUrl || '')
FallbackToken(resultUrl) ==
    IF resultUrl.t = "str" THEN TokenRegex(resultUrl.v) ELSE Null

rewriteResultUrl(resultUrl) ==
    LET token == StrictToken(resultUrl)
        match == FallbackToken(resultUrl)
    IN  IF token.t = "str" /\ token.v # <<>> THEN WithToken(token.v)
        ELSE IF match.t = "str" THEN WithToken(match.v)
        ELSE ResultsPath

(***************************************************************************)
(* generate_leads.js: the JSON payload and validatePayload.                *)
(***************************************************************************)
Obj(fields) == [t |-> "obj", v |-> fields]
Arr(items) == [t |-> "arr", v |-> items]
EmptyObj == Obj([k \in {} |-> Absent])

\* payload.name, undefined when the object has no such property
Field(value, name) ==
    IF value.t = "obj" /\ name \in DOMAIN value.v THEN value.v[name] ELSE Absent

\* {...object, name: value}
WithField(object, name, value) ==
    Obj([k \in DOMAIN object.v \cup {name} |-> IF k = name THEN value ELSE object.v[k]])

Alice == Str(Chars("alice"))
Bob == Str(Chars("bob"))

\* the text of a leads request: empty, not JSON at all, or the text of a JSON value
LeadsBodies ==
    LET SeedValues ==
            {Absent, Alice, Arr(<<>>), Arr(<<Alice>>), Arr(<<Alice, Bob>>),
             Arr(<<Alice, Str(<<" ">>)>>), Arr(<<Num("5"), Alice>>), Arr(<<Str(<<>>)>>)}
        FilterValues == {Absent, EmptyObj, Null, Arr(<<>>), Str(Chars("x")), Num("1"),
                         [t |-> "bool", v |-> Chars("true")]}
        PayloadOf(seed, filters) ==
            LET names == (IF seed.t = "absent" THEN {} ELSE {"seedUserNames"})
                         \cup (IF filters.t = "absent" THEN {} ELSE {"filters"})
            IN Obj([k \in names |-> IF k = "seedUserNames" THEN seed ELSE filters])
        Payloads ==
            {PayloadOf(seed, filters) : seed \in SeedValues, filters \in FilterValues}
            \cup {Null, Num("7"), Alice, Arr(<<>>), Arr(<<Alice>>)}
    IN  {[kind |-> "empty", value |-> Absent], [kind |-> "malformed", value |-> Absent]}
        \cup {[kind |-> "json", value |-> payload] : payload \in Payloads}

\* typeof filters !== 'object'
NotObject(value) == value.t \notin {"obj", "arr", "null"}

validatePayload(payload) ==
    LET seedUserNames == Field(payload, "seedUserNames")
        filters == Field(payload, "filters")
    IN  IF payload.t \notin {"obj", "arr"}
        THEN Invalid("INVALID_JSON", "Body must be a JSON object.")
        ELSE IF seedUserNames.t # "arr" \/ Len(seedUserNames.v) = 0
        THEN Invalid("INVALID_SEED", "seedUserNames must be a non-empty array of strings.")
        ELSE IF \E k \in 1..Len(seedUserNames.v) :
                    seedUserNames.v[k].t # "str" \/ IsBlank(seedUserNames.v[k].v)
        THEN Invalid("INVALID_SEED_ITEM", "Each seed user name must be a non-empty string.")
        ELSE IF filters.t # "absent" /\ NotObject(filters)
        THEN Invalid("INVALID_FILTERS", "filters must be an object if provided.")
        ELSE Valid(0)

(***************************************************************************)
(* The submit handlers of generate_dm_list.js and generate_leads.js.       *)
(***************************************************************************)
NoBody == [kind |-> "none", value |-> Absent, text |-> <<>>]
JsonBody(value) == [kind |-> "json", value |-> value, text |-> <<>>]
TextBody(text) == [kind |-> "text", value |-> Absent, text |-> text]

\* res.setHeader(name, value)
SetHeader(headers, name, value) ==
    [k \in DOMAIN headers \cup {name} |-> IF k = name THEN value ELSE headers[k]]

NoHeaders == [k \in {} |-> ""]

\* setCors(res), as each of the two files defines it
setCors(endpoint, headers) ==
    LET allowed == SetHeader(SetHeader(SetHeader(headers,
                       "Access-Control-Allow-Origin", "*"),
                       "Access-Control-Allow-Methods", "POST, GET, OPTIONS"),
                       "Access-Control-Allow-Headers", "Content-Type")
    IN IF endpoint = "leads" THEN allowed
       ELSE SetHeader(allowed, "Access-Control-Max-Age", "86400")

JsonType == "application/json; charset=utf-8"
TextType == "text/plain; charset=utf-8"

\* base.replace(/\/+$/, '')
RECURSIVE StripSlashes(_)
StripSlashes(base) ==
    IF EndsWith(base, "/") THEN StripSlashes(SubSeq(base, 1, Len(base) - 1)) ELSE base

\* getBackendBase() throws when the variable is unset or empty
ConfiguredAlways == TRUE
Configured == env # <<>>

getBackendBase == StripSlashes(env)

UpstreamPath(endpoint) ==
    IF endpoint = "dm" THEN Chars("/marketing/generate_dm_list")
    ELSE Chars("/marketing/generate_leads")

\* res.end(...) with the status, the headers set so far and the body
End(status, headers, body) == [status |-> status, headers |-> headers, body |-> body]

\* the catch block of a handler
CaughtLeaking(endpoint, headers) ==
    End(500, SetHeader(setCors(endpoint, headers), "Content-Type", JsonType),
        JsonBody(Obj([k \in {"error"} |->
                         Str(Chars("Environment variable MARKETING_BACKEND_URL is not set"))])))
Caught(endpoint, headers) ==
    End(500, SetHeader(setCors(endpoint, headers), "Content-Type", JsonType),
        JsonBody(Obj([k \in {"error"} |-> Str(Chars("Internal Server Error"))])))

\* the catch block when only setCors has set headers
InternalError(endpoint) == Caught(endpoint, setCors(endpoint, NoHeaders))

\* res.end(JSON.stringify({ error: validation.error, code: validation.code }))
Rejected(endpoint, v) ==
    End(400, SetHeader(setCors(endpoint, NoHeaders), "Content-Type", JsonType),
        JsonBody(Obj([k \in {"error", "code"} |->
                         IF k = "error" THEN Str(Chars(v.error)) ELSE Str(Chars(v.code))])))

PreflightAfterConfig(endpoint) ==
    IF env = <<>> THEN InternalError(endpoint) ELSE End(204, setCors(endpoint, NoHeaders), NoBody)
Preflight(endpoint) == End(204, setCors(endpoint, NoHeaders), NoBody)

MethodNotAllowed(endpoint) ==
    End(405, SetHeader(setCors(endpoint, NoHeaders), "Allow",
                       IF endpoint = "results" THEN "GET, OPTIONS" ELSE "POST, OPTIONS"),
        TextBody(Chars("Method Not Allowed")))

\* JSON.parse(text || '{}'); Absent stands for the SyntaxError it throws
JsonParse(body) ==
    CASE body.kind = "empty" -> EmptyObj
      [] body.kind = "malformed" -> Absent
      [] body.kind = "json" -> body.value

\* the check a handler runs on the body it has read
Validate(r) ==
    IF r.endpoint = "dm" THEN validateCsv(r.body)
    ELSE IF JsonParse(r.body).t = "absent" THEN Invalid("INVALID_JSON", "Invalid JSON body")
    ELSE validatePayload(JsonParse(r.body))

\* the body and content type of the fetch call
Forwarded(r) ==
    IF r.endpoint = "dm"
    THEN [contentType |-> "text/csv", body |-> TextBody(csvToSend(r.body))]
    ELSE [contentType |-> "application/json", body |-> JsonBody(JsonParse(r.body))]

FetchCall(r) ==
    [url |-> getBackendBase \o UpstreamPath(r.endpoint), method |-> "POST",
     contentType |-> Forwarded(r).contentType, body |-> Forwarded(r).body]

\* if (!validation.ok) ... return; otherwise go on to fetch
ForwardsAnyway(v) == TRUE
MayForward(v) == v.ok

\* the handler from its entry to its first response or to the await of fetch
handler(r) ==
    /\ hpc = "idle"
    /\ req' = r
    /\ IF r.method = "OPTIONS"
       THEN /\ res' = Preflight(r.endpoint)
            /\ hpc' = "done"
            /\ UNCHANGED <<validation, upCalls, reads>>
       ELSE IF r.method # "POST"
       THEN /\ res' = MethodNotAllowed(r.endpoint)
            /\ hpc' = "done"
            /\ UNCHANGED <<validation, upCalls, reads>>
       ELSE IF ~Configured
       THEN /\ res' = InternalError(r.endpoint)
            /\ hpc' = "done"
            /\ reads' = {"env"}
            /\ UNCHANGED <<validation, upCalls>>
       ELSE /\ validation' = Validate(r)
            /\ reads' = {"env", "body"}
            /\ IF MayForward(validation')
               THEN /\ upCalls' = Append(upCalls, FetchCall(r))
                    /\ hpc' = "upstream"
                    /\ UNCHANGED res
               ELSE /\ res' = Rejected(r.endpoint, validation')
                    /\ hpc' = "done"
                    /\ UNCHANGED upCalls
    /\ UNCHANGED <<env, up, stream>>
    /\ UNCHANGED <<pollVars, it, yields, rewriteVars, parked, widget>>

(***************************************************************************)
(* What the upstream may answer to a forwarded submission.  A body is its  *)
(* text together with the value upstream.json() gives (Absent: it throws). *)
(***************************************************************************)
\* the content-type headers that declare JSON
JsonTypes == {"application/json", "application/json; charset=utf-8"}

\* a 202 body {turnId, count, resultUrl}; url is the text and the value of resultUrl
AcceptedBody(url) ==
    [text |-> Chars("{\"turnId\":\"t1\",\"count\":2")
              \o (IF url[2].t = "absent" THEN <<>> ELSE Chars(",\"resultUrl\":") \o url[1])
              \o Chars("}"),
     json |-> LET names == {"turnId", "count"}
                           \cup (IF url[2].t = "absent" THEN {} ELSE {"resultUrl"})
              IN Obj([k \in names |->
                         CASE k = "turnId" -> Str(Chars("t1"))
                           [] k = "count" -> Num("2")
                           [] k = "resultUrl" -> url[2]])]

UpstreamAnswers ==
    LET ResultUrls ==
            { <<(<<"\"">> \o Chars(s) \o <<"\"">>), Str(Chars(s))>> :
                s \in {"https://backend/results?token=abc", "/results?token=a%2Fb",
                       "https://backend/results", "https://backend/results?token="} }
            \cup { <<Chars("5"), Num("5")>>, <<Chars("null"), Null>>, <<<<>>, Absent>> }
        ErrorBody ==
            [text |-> Chars("{\"error\":\"bad\",\"resultUrl\":\"https://backend/results?token=abc\"}"),
             json |-> Obj([k \in {"error", "resultUrl"} |->
                              IF k = "error" THEN Str(Chars("bad"))
                              ELSE Str(Chars("https://backend/results?token=abc"))])]
        NullBody == [text |-> Chars("null"), json |-> Null]
        HtmlBody == [text |-> Chars("<html>Bad Gateway</html>"), json |-> Absent]
    IN  {[status |-> StatusPending, contentType |-> "application/json", body |-> body] :
            body \in {AcceptedBody(url) : url \in ResultUrls} \cup {NullBody, HtmlBody}}
        \cup [status : {400, 503}, contentType : JsonTypes \cup {"text/html", ""},
              body : {ErrorBody, HtmlBody}]

\* contentType.includes('application/json')
DeclaresJson(answer) == answer.contentType \in JsonTypes

\* if (upstream.status !== 202)
PassedThroughNever(answer) == FALSE
PassedThrough(answer) == answer.status # StatusPending

\* const rewritten = { ...data, resultUrl: rewriteResultUrl(data.resultUrl) }
RewrittenOnly(data) ==
    Obj([k \in {"resultUrl"} |-> Str(rewriteResultUrl(Field(data, "resultUrl")))])
Rewritten(data) ==
    WithField(data, "resultUrl", Str(rewriteResultUrl(Field(data, "resultUrl"))))

\* the handler after fetch has resolved, to its response
Relay(endpoint, answer) ==
    LET cors == setCors(endpoint, NoHeaders) IN
    IF PassedThrough(answer)
    THEN IF DeclaresJson(answer)
         THEN IF answer.body.json.t = "absent" THEN InternalError(endpoint)
              ELSE End(answer.status, SetHeader(cors, "Content-Type", JsonType),
                       JsonBody(answer.body.json))
         ELSE End(answer.status, SetHeader(cors, "Content-Type", TextType),
                  TextBody(answer.body.text))
    ELSE IF answer.body.json.t # "obj" THEN InternalError(endpoint)
         ELSE End(StatusPending, SetHeader(cors, "Content-Type", JsonType),
                  JsonBody(Rewritten(answer.body.json)))

UpstreamResponds(answer) ==
    /\ hpc = "upstream"
    /\ up' = answer
    /\ res' = Relay(req.endpoint, answer)
    /\ hpc' = "done"
    /\ UNCHANGED <<req, env, validation, upCalls, reads, stream>>
    /\ UNCHANGED <<pollVars, it, yields, rewriteVars, parked, widget>>

\* fetch rejects: the catch block answers
UpstreamFails ==
    /\ hpc = "upstream"
    /\ res' = InternalError(req.endpoint)
    /\ hpc' = "done"
    /\ UNCHANGED <<req, env, validation, upCalls, up, reads, stream>>
    /\ UNCHANGED <<pollVars, it, yields, rewriteVars, parked, widget>>

(***************************************************************************)
(* api/results.js: the fetch-result handler.                               *)
(***************************************************************************)
MaxChunks == 2

BytesBody(text) == [kind |-> "bytes", value |-> Absent, text |-> text]

\* String(n)
RECURSIVE Decimal(_)
Decimal(n) ==
    IF n < 10 THEN SubSeq("0123456789", n + 1, n + 1)
    ELSE Decimal(n \div 10) \o SubSeq("0123456789", (n % 10) + 1, (n % 10) + 1)

\* the query of new URL(req.url, 'http://localhost'), as the parser writes it
RECURSIVE QueryEncode(_)
QueryEncode(s) ==
    IF s = <<>> THEN <<>>
    ELSE (IF \E e \in QueryEscapes : e[1] = Head(s)
          THEN <<"%">> \o (CHOOSE e \in QueryEscapes : e[1] = Head(s))[2]
          ELSE <<Head(s)>>)
         \o QueryEncode(Tail(s))

\* const search = url.search || ''
SearchDropped(url) == <<>>
Search(url) ==
    LET query == QueryEncode(SearchOf(url)) IN
    IF query = <<>> THEN <<>> ELSE <<"?">> \o query

\* fetch(`${backendBase}/results${search}`, { method: 'GET' })
LookupCall(r) ==
    [url |-> getBackendBase \o Chars("/results") \o Search(r.url), method |-> "GET",
     contentType |-> "", body |-> NoBody]

\* the handler from its entry to its first response or to the await of fetch
handlerResults(r) ==
    /\ hpc = "idle"
    /\ req' = r
    /\ IF r.method = "OPTIONS"
       THEN /\ res' = Preflight(r.endpoint)
            /\ hpc' = "done"
            /\ UNCHANGED <<upCalls, reads>>
       ELSE IF r.method # "GET"
       THEN /\ res' = MethodNotAllowed(r.endpoint)
            /\ hpc' = "done"
            /\ UNCHANGED <<upCalls, reads>>
       ELSE IF ~Configured
       THEN /\ res' = InternalError(r.endpoint)
            /\ hpc' = "done"
            /\ reads' = {"env"}
            /\ UNCHANGED upCalls
       ELSE /\ upCalls' = Append(upCalls, LookupCall(r))
            /\ hpc' = "lookup"
            /\ reads' = {"env", "query"}
            /\ UNCHANGED res
    /\ UNCHANGED <<env, validation, up, stream>>
    /\ UNCHANGED <<pollVars, it, yields, rewriteVars, parked, widget>>

\* the chunks of a 200 body: r1, r2, ...
Chunks(n) == [k \in 1..n |-> <<"r">> \o Chars(Decimal(k))]

RECURSIVE Concat(_)
Concat(chunks) == IF chunks = <<>> THEN <<>> ELSE Head(chunks) \o Concat(Tail(chunks))

\* what the upstream may answer to a lookup; disposition "" when it sends none
LookupAnswers ==
    LET Ready == [text |-> Chars("{\"ready\":false}"),
                  json |-> Obj([k \in {"ready"} |-> [t |-> "bool", v |-> Chars("false")]])]
        Expired == [text |-> Chars("{\"error\":\"expired\"}"),
                    json |-> Obj([k \in {"error"} |-> Str(Chars("expired"))])]
        Html == [text |-> Chars("<html>Bad Gateway</html>"), json |-> Absent]
    IN  [status : {StatusPending}, contentType : {"application/json"}, disposition : {""},
         body : {Ready, Html}, chunks : {<<>>}]
        \cup [status : {StatusReady}, contentType : {"text/csv", ""},
              disposition : {"", "attachment; filename=\"leads.csv\""},
              body : {Html}, chunks : {Chunks(n) : n \in 0..MaxChunks}]
        \cup [status : {StatusInvalid, StatusExpired, 503},
              contentType : JsonTypes \cup {"text/html", ""}, disposition : {""},
              body : {Expired, Html}, chunks : {<<>>}]

\* lines 54-60: the headers of the relayed 200
DefaultCsvType == "text/csv; charset=utf-8"

StreamHeadersAttachment(answer) ==
    SetHeader(SetHeader(setCors("results", NoHeaders), "Content-Type", DefaultCsvType),
              "Content-Disposition", "attachment")

StreamHeaders(answer) ==
    LET typed == SetHeader(setCors("results", NoHeaders), "Content-Type",
                           IF answer.contentType = "" THEN DefaultCsvType
                           ELSE answer.contentType)
    IN IF answer.disposition # ""
       THEN SetHeader(typed, "Content-Disposition", answer.disposition)
       ELSE typed

RelayLookupAsText(answer) ==
    End(200, SetHeader(setCors("results", NoHeaders), "Content-Type", TextType),
        TextBody(answer.body.text))

\* the handler after fetch has resolved with a status other than 200
RelayLookup(answer) ==
    LET cors == setCors("results", NoHeaders) IN
    IF answer.status = StatusPending
    THEN IF answer.body.json.t = "absent"
         THEN Caught("results", SetHeader(cors, "Content-Type", JsonType))
         ELSE End(StatusPending, SetHeader(cors, "Content-Type", JsonType),
                  JsonBody(answer.body.json))
    ELSE IF DeclaresJson(answer)
    THEN IF answer.body.json.t = "absent" THEN InternalError("results")
         ELSE End(answer.status, SetHeader(cors, "Content-Type", JsonType),
                  JsonBody(answer.body.json))
    ELSE End(answer.status, SetHeader(cors, "Content-Type", TextType),
             TextBody(answer.body.text))

\* fetch resolves; on a 200 the body is piped, or buffered where it cannot be
LookupResponds(answer, piped) ==
    /\ hpc = "lookup"
    /\ up' = answer
    /\ IF answer.status = StatusReady
       THEN /\ res' = End(StatusReady, StreamHeaders(answer), BytesBody(<<>>))
            /\ hpc' = IF piped THEN "streaming" ELSE "buffering"
            /\ stream' = answer.chunks
       ELSE /\ res' = RelayLookup(answer)
            /\ hpc' = "done"
            /\ UNCHANGED stream
    /\ UNCHANGED <<req, env, validation, upCalls, reads>>
    /\ UNCHANGED <<pollVars, it, yields, rewriteVars, parked, widget>>

\* fetch rejects: the catch block answers
LookupFails ==
    /\ hpc = "lookup"
    /\ res' = InternalError("results")
    /\ hpc' = "done"
    /\ UNCHANGED <<req, env, validation, upCalls, up, reads, stream>>
    /\ UNCHANGED <<pollVars, it, yields, rewriteVars, parked, widget>>

\* nodeStream.pipe(res): a chunk arrives and is written
StreamData ==
    /\ hpc = "streaming"
    /\ stream # <<>>
    /\ res' = [res EXCEPT !.body = BytesBody(res.body.text \o Head(stream))]
    /\ stream' = Tail(stream)
    /\ UNCHANGED <<req, env, hpc, validation, upCalls, up, reads>>
    /\ UNCHANGED <<pollVars, it, yields, rewriteVars, parked, widget>>

\* the upstream body ends: pipe calls res.end()
StreamEnd ==
    /\ hpc = "streaming"
    /\ stream = <<>>
    /\ hpc' = "done"
    /\ UNCHANGED <<req, env, validation, upCalls, up, res, reads, stream>>
    /\ UNCHANGED <<pollVars, it, yields, rewriteVars, parked, widget>>

\* res.headersSent: the first write has sent the headers
HeadersSent == res.body.text # <<>>

StreamErrorText == Chars("{\"error\":\"Stream Error\"}")

\* nodeStream.on('error', ...), lines 65-74
StreamError ==
    /\ hpc = "streaming"
    /\ res' = IF ~HeadersSent
              THEN End(500, SetHeader(res.headers, "Content-Type", JsonType),
                       BytesBody(StreamErrorText))
              ELSE [res EXCEPT !.body = BytesBody(res.body.text \o StreamErrorText)]
    /\ hpc' = "done"
    /\ UNCHANGED <<req, env, validation, upCalls, up, reads, stream>>
    /\ UNCHANGED <<pollVars, it, yields, rewriteVars, parked, widget>>

\* Buffer.from(await upstream.arrayBuffer()), lines 77-79
BufferResolves ==
    /\ hpc = "buffering"
    /\ res' = End(StatusReady,
                  SetHeader(res.headers, "Content-Length", Decimal(Len(Concat(stream)))),
                  BytesBody(Concat(stream)))
    /\ stream' = <<>>
    /\ hpc' = "done"
    /\ UNCHANGED <<req, env, validation, upCalls, up, reads>>
    /\ UNCHANGED <<pollVars, it, yields, rewriteVars, parked, widget>>

\* upstream.arrayBuffer() rejects: the catch block answers
BufferRejects ==
    /\ hpc = "buffering"
    /\ res' = Caught("results", res.headers)
    /\ hpc' = "done"
    /\ UNCHANGED <<req, env, validation, upCalls, up, reads, stream>>
    /\ UNCHANGED <<pollVars, it, yields, rewriteVars, parked, widget>>

\* the requests to the fetch-result endpoint; query is what the caller put after "?"
LookupRequests ==
    {[endpoint |-> "results", method |-> "GET", body |-> <<>>, query |-> q,
      url |-> Chars("/api/results") \o (IF q = "" THEN <<>> ELSE <<"?">> \o Chars(q))] :
        q \in {"", "token=abc", "token=a%2Fb", "token=a'b", "token=",
               "x=1&token=abc&y=2", "x=1"}}
    \cup {[endpoint |-> "results", method |-> m, body |-> <<>>, query |-> "token=abc",
           url |-> Chars("/api/results?token=abc")] : m \in {"OPTIONS", "POST"}}

(***************************************************************************)
(* The requests and the specification of one handler invocation.           *)
(***************************************************************************)
\* POSTs with every body, and the other methods, whose body is never read
Requests ==
    {[endpoint |-> "dm", method |-> "POST", body |-> BuildCsv(shape), shape |-> shape] :
        shape \in Shapes}
    \cup {[endpoint |-> "leads", method |-> "POST", body |-> body] : body \in LeadsBodies}
    \cup {[endpoint |-> e, method |-> m, body |-> <<>>] :
             e \in {"dm", "leads"}, m \in {"OPTIONS", "GET"}}

Environments == {<<>>, Chars("https://backend//")}

InitProxy ==
    /\ PollInit({})
    /\ RewriteIdle
    /\ WidgetIdle
    /\ req = NoRequest
    /\ env \in Environments
    /\ hpc = "idle"
    /\ validation = NoValidation
    /\ upCalls = <<>>
    /\ up = NoAnswer
    /\ res = NoResponse
    /\ reads = {}
    /\ stream = <<>>
    /\ parked = IdleFrame

NextProxy ==
    \/ \E r \in Requests : handler(r)
    \/ \E answer \in UpstreamAnswers : UpstreamResponds(answer)
    \/ UpstreamFails
    \/ \E r \in LookupRequests : handlerResults(r)
    \/ \E answer \in LookupAnswers, piped \in BOOLEAN : LookupResponds(answer, piped)
    \/ LookupFails
    \/ StreamData
    \/ StreamEnd
    \/ StreamError
    \/ BufferResolves
    \/ BufferRejects

SpecProxy == InitProxy /\ [][NextProxy]_vars

(***************************************************************************)
(* Claims about the submit handlers (SpecProxy).                           *)
(***************************************************************************)
\* a POST has reached a submit handler whose backend base is configured
SubmitEndpoints == {"dm", "leads"}
Submitted ==
    hpc # "idle" /\ req.endpoint \in SubmitEndpoints /\ req.method = "POST" /\ Configured
SubmittedCsv == Submitted /\ req.endpoint = "dm"

\* C11: with the base URL configured, a submission whose body fails
\* validation is answered 400 with a body {error, code} and no upstream
\* call; an upstream call is made only after validation has succeeded.
C11_InvalidNeverForwarded ==
    /\ (Submitted /\ ~validation.ok) =>
          /\ hpc = "done"
          /\ res.status = 400
          /\ res.body.kind = "json"
          /\ DOMAIN res.body.value.v = {"error", "code"}
          /\ res.body.value.v["code"] = Str(Chars(validation.code))
          /\ upCalls = <<>>
    /\ (req.endpoint \in SubmitEndpoints /\ upCalls # <<>>) => validation.ok

C11_Witness ==
    /\ Submitted /\ req.endpoint = "leads" /\ ~validation.ok
    /\ res.status = 400 /\ upCalls = <<>>

\* C12: with an accepted header and n non-blank lines after it, n = 0 is
\* rejected EMPTY_ROWS, 1 <= n <= 300 is accepted and n >= 301 is rejected
\* TOO_MANY_ROWS; blank lines do not count.
C12_RowCount ==
    (SubmittedCsv /\ ShapeHeader(req.shape) # "bad") =>
        LET n == ShapeRows(req.shape) IN
        /\ n = 0 => ~validation.ok /\ validation.code = "EMPTY_ROWS"
        /\ (1 <= n /\ n <= 300) => validation.ok /\ validation.count = n
        /\ n >= 301 => ~validation.ok /\ validation.code = "TOO_MANY_ROWS"

C12_Witness ==
    /\ SubmittedCsv /\ ShapeHeader(req.shape) # "bad"
    /\ ShapeRows(req.shape) = 300 /\ ShapeLines(req.shape) > 301
    /\ validation.ok

ForwardedCsv == SubmittedCsv /\ validation.ok /\ Len(upCalls) = 1
ForwardedText == upCalls[1].body.text
ForwardedLines == SplitLF(ForwardedText, 1, Len(ForwardedText))
SubmittedLines == RunLines(req.shape.runs, 1)

\* C14: a validated CSV with the 2-column header is forwarded with the
\* 3-column header as first line, every non-blank row ending with ',',
\* every blank line unchanged, and as many lines and rows as submitted.
C14_HeaderExpansion ==
    (ForwardedCsv /\ ShapeHeader(req.shape) = "two") =>
        LET forwarded == ForwardedLines
            submitted == SubmittedLines
        IN  /\ forwarded[1] = Chars("userName,userLink,directMessage")
            /\ Len(forwarded) = ShapeLines(req.shape)
            /\ Cardinality({k \in 2..Len(forwarded) : ~IsBlank(forwarded[k])})
                  = ShapeRows(req.shape)
            /\ \A k \in 2..Len(forwarded) :
                  IF IsBlank(submitted[k - 1])
                  THEN forwarded[k] = submitted[k - 1]
                  ELSE EndsWith(forwarded[k], ",")

C14_Witness ==
    /\ ForwardedCsv /\ req.shape.first = "twoPadded" /\ req.shape.bom
    /\ req.shape.sep = <<CR, LF>>
    /\ req.shape.runs = << <<"row", 1>>, <<"space", 1>> >>
    /\ ForwardedText = Chars("userName,userLink,directMessage") \o <<LF>> \o Chars("a,b,")
                       \o <<LF, " ", TAB>>

\* C15: a validated CSV with the 3-column header is forwarded exactly as
\* it was received.
C15_CanonicalUnchanged ==
    (ForwardedCsv /\ ShapeHeader(req.shape) = "three") =>
        /\ ForwardedText = req.body
        /\ ForwardedText = BuildCsv(req.shape)

C15_Witness ==
    /\ ForwardedCsv /\ req.shape.first = "three" /\ req.shape.bom
    /\ req.shape.sep = <<CR, LF>>
    /\ req.shape.runs = << <<"row", 1>>, <<"empty", 1>> >>
    /\ ForwardedText = <<BOM>> \o Chars("userName,userLink,directMessage") \o <<CR, LF>>
                       \o Chars("a,b") \o <<CR, LF>>

\* the upstream has answered the forwarded submission and the handler has responded
Answered == hpc = "done" /\ req.endpoint \in SubmitEndpoints /\ up.status # 0

\* C16: when upstream answers 202 with a JSON object, the handler responds
\* 202 with that object, resultUrl replaced by its rewritten form and
\* every other field unchanged.
C16_AcceptedOnlyResultUrlRewritten ==
    (Answered /\ up.status = 202 /\ up.body.json.t = "obj") =>
        LET data == up.body.json.v
            out == res.body
        IN  /\ res.status = 202
            /\ out.kind = "json"
            /\ out.value.t = "obj"
            /\ DOMAIN out.value.v = DOMAIN data \cup {"resultUrl"}
            /\ \A k \in DOMAIN data \ {"resultUrl"} : out.value.v[k] = data[k]
            /\ out.value.v["resultUrl"] = Str(rewriteResultUrl(Field(up.body.json, "resultUrl")))
            /\ StartsWith(out.value.v["resultUrl"].v, Chars("/api/results"))

C16_Witness ==
    /\ Answered /\ up.status = 202 /\ req.endpoint = "leads"
    /\ Field(up.body.json, "resultUrl") = Str(Chars("https://backend/results?token=abc"))
    /\ res.status = 202
    /\ Field(res.body.value, "resultUrl") = Str(Chars("/api/results?token=abc"))
    /\ Field(res.body.value, "turnId") = Str(Chars("t1"))
    /\ Field(res.body.value, "count") = Num("2")

ValueOf(loc) ==
    CASE loc.kind = "str" ->
             Str(Chars(loc.origin) \o Chars(loc.path)
                 \o (IF loc.query = "" THEN <<>> ELSE <<"?">> \o Chars(loc.query))
                 \o Chars(loc.frag))
      [] loc.kind = "absent" -> Absent
      [] loc.kind = "null" -> Null
      [] loc.kind = "num" -> Num("5")

\* pairs of locations with the same query and fragment; a missing, null or numeric
\* resultUrl is paired with itself
LocationPairs ==
    LET Locations ==
            [kind : {"str"},
             origin : {"", "https://up", "http://up:8", "//up"},
             path : {"/results", "/v2/r"},
             query : {"", "token=abc", "token=a%2Fb", "token=a+b", "token=", "x=1",
                      "x=1&token=abc", "token=abc&x=1", "tokens=1&token=a%26b"},
             frag : {"", "#f"}]
        NonStrings ==
            [kind : {"absent", "null", "num"}, origin : {""}, path : {""}, query : {""},
             frag : {""}]
    IN  {<<x, y>> \in Locations \X Locations : x.query = y.query /\ x.frag = y.frag}
        \cup {<<x, x>> : x \in NonStrings}

Rewrite(x, y) ==
    /\ rwIn' = <<x, y>>
    /\ rwOut' = <<rewriteResultUrl(ValueOf(x)), rewriteResultUrl(ValueOf(y))>>
    /\ UNCHANGED <<pollVars, it, yields, proxyVars, widget>>

InitRewrite == PollInit({}) /\ ProxyIdle /\ RewriteIdle /\ WidgetIdle

NextRewrite == \E pair \in LocationPairs : Rewrite(pair[1], pair[2])

SpecRewrite == InitRewrite /\ [][NextRewrite]_vars

(***************************************************************************)
(* Claims about rewriteResultUrl (SpecRewrite).                            *)
(***************************************************************************)
\* the token parameter of a query string, as a query string is read
TokenOf(query) == SearchParamsGet(Chars(query))
HasToken(loc) == loc.kind = "str" /\ TokenOf(loc.query).t = "str" /\ TokenOf(loc.query).v # <<>>

\* s occurs in t
Contains(text, s) ==
    \E i \in 1..(Len(text) - Len(s) + 1) : SubSeq(text, i, i + Len(s) - 1) = s

\* C18: for every result location with a token parameter, absolute or
\* not, the output is '/api/results?token=' followed by the percent-encoding
\* of that token value: the output's token decodes to the input's token, and
\* the same query string gives the same output on both paths.
C18_TokenPreserved ==
    \A i \in 1..Len(rwIn) :
        HasToken(rwIn[i]) =>
            /\ rwOut[i] = Chars("/api/results?token=")
                          \o encodeURIComponent(TokenOf(rwIn[i].query).v)
            /\ SearchParamsGet(SearchOf(rwOut[i])) = TokenOf(rwIn[i].query)
            /\ rwOut[1] = rwOut[2]

\* C19: for every result location from which no token can be extracted (no
\* token parameter, an empty token value, a missing or non-string
\* resultUrl) the output is exactly '/api/results'.
C19_NoTokenBarePath ==
    \A i \in 1..Len(rwIn) :
        ~HasToken(rwIn[i]) => rwOut[i] = Chars("/api/results")

\* C20: the output carries no scheme, host or port of the input, always
\* starts with '/api/results', and two locations that differ only in
\* scheme, host, port or path give the same output.
C20_OriginIndependent ==
    rwIn # <<>> =>
        /\ \A i \in 1..2 :
              /\ StartsWith(rwOut[i], Chars("/api/results"))
              /\ rwIn[i].origin # "" => ~Contains(rwOut[i], Chars(rwIn[i].origin))
        /\ rwOut[1] = rwOut[2]

(***************************************************************************)
(* Claims about the three handlers together (SpecProxy).                   *)
(***************************************************************************)
\* the request has the method its endpoint serves
Served ==
    /\ hpc # "idle"
    /\ req.method = (IF req.endpoint = "results" THEN "GET" ELSE "POST")

\* upstream.json() was called on a body that does not parse, or (submit
\* handlers) gave a value that has no properties to read
ParseFault ==
    /\ Served /\ up.status # 0
    /\ \/ /\ up.body.json.t = "absent"
          /\ \/ up.status = 202
             \/ up.status # 200 /\ up.contentType \in JsonTypes
             \/ up.status = 200 /\ req.endpoint # "results" /\ up.contentType \in JsonTypes
       \/ up.status = 202 /\ req.endpoint # "results" /\ up.body.json.t = "null"

\* a fault that the state shows: no configuration, fetch rejected, parse fault
Faulted ==
    /\ hpc = "done"
    /\ \/ Served /\ env = <<>>
       \/ upCalls # <<>> /\ up.status = 0
       \/ ParseFault

FixedAnswer ==
    /\ hpc = "done"
    /\ res.status = 500
    /\ res.body = JsonBody(Obj([k \in {"error"} |-> Str(Chars("Internal Server Error"))]))

C22_FailsClosed ==
    (Served /\ env = <<>>) =>
        /\ hpc = "done"
        /\ res.status = 500
        /\ upCalls = <<>>

C22_Witness ==
    /\ Served /\ env = <<>> /\ req.endpoint = "dm"
    /\ ~validateCsv(req.body).ok
    /\ res.status = 500 /\ upCalls = <<>>

\* C23: every response of each endpoint carries the full cross-origin
\* policy: Allow-Origin '*', Allow-Methods 'POST, GET, OPTIONS',
\* Allow-Headers 'Content-Type' and an Access-Control-Max-Age.
C23_CorsOnEveryResponse ==
    res.status # 0 =>
        /\ {"Access-Control-Allow-Origin", "Access-Control-Allow-Methods",
            "Access-Control-Allow-Headers", "Access-Control-Max-Age"} \subseteq DOMAIN res.headers
        /\ res.headers["Access-Control-Allow-Origin"] = "*"
        /\ res.headers["Access-Control-Allow-Methods"] = "POST, GET, OPTIONS"
        /\ res.headers["Access-Control-Allow-Headers"] = "Content-Type"

\* C24: each handler answers OPTIONS with an empty 204 without reading
\* the body or the configuration and without an upstream call, whether or
\* not the base URL is configured.
C24_Preflight ==
    (hpc # "idle" /\ req.method = "OPTIONS") =>
        /\ hpc = "done"
        /\ res.status = 204
        /\ res.body.kind = "none"
        /\ reads = {}
        /\ upCalls = <<>>

C24_Witness ==
    /\ req.method = "OPTIONS" /\ req.endpoint = "results" /\ env = <<>>
    /\ hpc = "done" /\ res.status = 204 /\ reads = {}

(***************************************************************************)
(* Claims about the fetch-result handler (SpecProxy).                      *)
(***************************************************************************)
LookupAnswered == req.endpoint = "results" /\ hpc = "done" /\ up.status # 0

\* the body the statement names for the upstream status
RelayedBody ==
    IF up.status = StatusPending THEN res.body = JsonBody(up.body.json)
    ELSE IF up.status = StatusReady
    THEN res.body.kind = "bytes" /\ res.body.text = Concat(up.chunks)
    ELSE IF up.contentType \in JsonTypes THEN res.body = JsonBody(up.body.json)
    ELSE res.body = TextBody(up.body.text)

C26_HeadersRelayed ==
    /\ (req.endpoint = "results" /\ up.status = StatusReady /\ res.status = StatusReady) =>
          /\ up.contentType # "" => res.headers["Content-Type"] = up.contentType
          /\ ("Content-Disposition" \in DOMAIN res.headers) <=> (up.disposition # "")
    /\ (req.endpoint = "results" /\ res.status # 0
        /\ "Content-Disposition" \in DOMAIN res.headers) =>
          /\ up.status = StatusReady
          /\ res.headers["Content-Disposition"] = up.disposition

C26_Witness ==
    /\ LookupAnswered /\ up.status = StatusReady /\ res.status = StatusReady
    /\ up.contentType = "text/csv" /\ res.headers["Content-Type"] = "text/csv"
    /\ up.disposition # "" /\ res.headers["Content-Disposition"] = up.disposition
    /\ res.body.text = Concat(up.chunks) /\ Len(up.chunks) = MaxChunks

\* C27: a fault of the upstream stream never gives a response that ends
\* normally with truncated content: a response to an upstream 200 that is
\* completed with status 200 holds the upstream bytes, all of them and
\* nothing else.
C27_NoTruncatedSuccess ==
    (LookupAnswered /\ up.status = StatusReady /\ res.status = StatusReady) =>
        res.body.text = Concat(up.chunks)

\* C28: the fetch-result handler forwards the complete query string to the
\* upstream lookup unmodified: upstream receives the caller's parameters,
\* values and order, and so the caller's token.
C28_QueryForwarded ==
    /\ (Served /\ req.endpoint = "results" /\ env # <<>>) => Len(upCalls) = 1
    /\ (req.endpoint = "results" /\ upCalls # <<>>) =>
          LET sent == SearchOf(upCalls[1].url)
              put == Chars(req.query)
          IN  /\ upCalls[1].url = getBackendBase \o Chars("/results")
                                    \o (IF sent = <<>> THEN <<>> ELSE <<"?">> \o sent)
              /\ SearchParams(sent) = SearchParams(put)
              /\ SearchParamsGet(sent) = SearchParamsGet(put)
              /\ (~Contains(put, <<"'">>)) => sent = put

C28_Witness ==
    /\ req.endpoint = "results" /\ req.query = "x=1&token=abc&y=2"
    /\ upCalls = <<[url |-> Chars("https://backend/results?x=1&token=abc&y=2"),
                    method |-> "GET", contentType |-> "", body |-> NoBody]>>

\* C29: a GET to the fetch-result endpoint whose query has no token
\* parameter is rejected with status 400 and is not forwarded to upstream.
C29_TokenRequired ==
    (Served /\ req.endpoint = "results" /\ env # <<>> /\ TokenOf(req.query).t # "str") =>
        /\ hpc = "done"
        /\ res.status = 400
        /\ upCalls = <<>>

\* C30: the leads validator rejects with INVALID_JSON a body that does not
\* decode to an object, with INVALID_SEED a seedUserNames that is missing,
\* not a list or empty, with INVALID_SEED_ITEM an element that is not a
\* string or is blank after trimming; a rejection makes no upstream call,
\* and an accepted payload has only non-blank strings as elements.
C30_LeadsCodes ==
    (Served /\ req.endpoint = "leads" /\ env # <<>>) =>
        LET payload == JsonParse(req.body)
            seed == Field(payload, "seedUserNames")
            expected ==
                IF payload.t # "obj" THEN "INVALID_JSON"
                ELSE IF seed.t # "arr" THEN "INVALID_SEED"
                ELSE IF Len(seed.v) = 0 THEN "INVALID_SEED"
                ELSE IF \E k \in 1..Len(seed.v) : seed.v[k].t # "str" THEN "INVALID_SEED_ITEM"
                ELSE IF \E k \in 1..Len(seed.v) : Trim(seed.v[k].v) = <<>>
                THEN "INVALID_SEED_ITEM"
                ELSE "none"
        IN  /\ expected # "none" =>
                /\ ~validation.ok /\ validation.code = expected
                /\ hpc = "done" /\ res.status = 400 /\ upCalls = <<>>
            /\ validation.ok =>
                /\ seed.t = "arr"
                /\ \A k \in 1..Len(seed.v) : seed.v[k].t = "str" /\ Trim(seed.v[k].v) # <<>>

\* C31: in a leads payload with valid seedUserNames, a filters value that
\* is present and is not an object (a string, number, boolean or null) is
\* rejected with INVALID_FILTERS and nothing is forwarded; an absent
\* filters is accepted.
C31_FiltersObject ==
    (Served /\ req.endpoint = "leads" /\ env # <<>>) =>
        LET payload == JsonParse(req.body)
            seed == Field(payload, "seedUserNames")
            filters == Field(payload, "filters")
            seedValid ==
                /\ payload.t = "obj" /\ seed.t = "arr" /\ Len(seed.v) > 0
                /\ \A k \in 1..Len(seed.v) : seed.v[k].t = "str" /\ Trim(seed.v[k].v) # <<>>
        IN  seedValid =>
              /\ filters.t \in {"str", "num", "bool", "null"} =>
                    /\ ~validation.ok /\ validation.code = "INVALID_FILTERS"
                    /\ hpc = "done" /\ res.status = 400 /\ upCalls = <<>>
              /\ filters.t = "absent" => (validation.ok /\ Len(upCalls) = 1)

(***************************************************************************)
(* Two invocations of the handlers on one event loop.  A handler's state   *)
(* is in the locals of its async function; the modules hold constants only *)
(* (ALLOWED_HEADERS, MAX_TARGETS) and process.env is only read.  Between   *)
(* two awaits one invocation runs; at any await the loop may resume the    *)
(* other one.                                                              *)
(***************************************************************************)
\* the locals of the running invocation
Running ==
    [req |-> req, hpc |-> hpc, validation |-> validation, upCalls |-> upCalls,
     up |-> up, res |-> res, reads |-> reads, stream |-> stream]

\* the loop resumes the other invocation; a variant in which the upstream's
\* answer is held in a module-level variable, shared by the invocations
SwitchSharingAnswer ==
    /\ parked' = Running
    /\ req' = parked.req
    /\ hpc' = parked.hpc
    /\ validation' = parked.validation
    /\ upCalls' = parked.upCalls
    /\ res' = parked.res
    /\ reads' = parked.reads
    /\ stream' = parked.stream
    /\ UNCHANGED <<env, up>>
    /\ UNCHANGED <<pollVars, it, yields, rewriteVars, widget>>

Switch ==
    /\ parked' = Running
    /\ req' = parked.req
    /\ hpc' = parked.hpc
    /\ validation' = parked.validation
    /\ upCalls' = parked.upCalls
    /\ up' = parked.up
    /\ res' = parked.res
    /\ reads' = parked.reads
    /\ stream' = parked.stream
    /\ UNCHANGED env
    /\ UNCHANGED <<pollVars, it, yields, rewriteVars, widget>>

\* a few requests of each endpoint and a few answers of the upstream
ConcRequests ==
    {r \in Requests :
        \/ /\ r.endpoint = "dm" /\ r.method = "POST"
           /\ ~r.shape.bom /\ r.shape.first \in {"two", "short"}
           /\ r.shape.runs = << <<"row", 1>> >>
        \/ /\ r.endpoint = "leads" /\ r.method = "POST"
           /\ \/ r.body.kind = "malformed"
              \/ r.body.kind = "json" /\ r.body.value = Obj([k \in {"seedUserNames"} |-> Arr(<<Alice>>)])}
    \cup {r \in LookupRequests : r.query = "token=abc" /\ r.method \in {"GET", "OPTIONS"}}

ConcAnswers ==
    {a \in UpstreamAnswers :
        \/ /\ a.status = StatusPending
           /\ Field(a.body.json, "resultUrl").t = "str"
           /\ Field(a.body.json, "resultUrl").v = Chars("https://backend/results?token=abc")
        \/ a.status = 503 /\ a.contentType = "text/html" /\ a.body.json.t = "absent"}

ConcLookupAnswers ==
    {a \in LookupAnswers :
        \/ a.status = StatusPending /\ a.body.json.t = "obj"
        \/ a.status = StatusReady /\ a.contentType = "text/csv" /\ a.disposition = ""
           /\ Len(a.chunks) = 1
        \/ a.status = StatusExpired /\ a.contentType = "application/json"
           /\ a.body.json.t = "obj"}

InitConcurrent == InitProxy

NextConcurrent ==
    \/ \E r \in ConcRequests : r.endpoint # "results" /\ handler(r)
    \/ \E answer \in ConcAnswers : UpstreamResponds(answer)
    \/ UpstreamFails
    \/ \E r \in ConcRequests : r.endpoint = "results" /\ handlerResults(r)
    \/ \E answer \in ConcLookupAnswers, piped \in BOOLEAN : LookupResponds(answer, piped)
    \/ LookupFails
    \/ StreamData
    \/ StreamEnd
    \/ StreamError
    \/ BufferResolves
    \/ BufferRejects
    \/ Switch

SpecConcurrent == InitConcurrent /\ [][NextConcurrent]_vars

(***************************************************************************)
(* Claim about concurrent invocations (SpecConcurrent).                    *)
(***************************************************************************)
\* the fetch calls an invocation makes for its request when handled alone
AloneCalls(f) ==
    IF f.req.method = "OPTIONS" \/ env = <<>> THEN <<>>
    ELSE IF f.req.endpoint = "results"
    THEN IF f.req.method = "GET" THEN <<LookupCall(f.req)>> ELSE <<>>
    ELSE IF f.req.method = "POST" /\ Validate(f.req).ok THEN <<FetchCall(f.req)>> ELSE <<>>

\* the responses a 200 lookup can end with, by what happens to its body
AloneStreamed(answer) ==
    LET all == Concat(answer.chunks)
        PrefixText(k) == Concat(SubSeq(answer.chunks, 1, k))
    IN  {End(StatusReady, StreamHeaders(answer), BytesBody(all)),
         End(StatusReady, SetHeader(StreamHeaders(answer), "Content-Length",
                                    Decimal(Len(all))), BytesBody(all)),
         Caught("results", StreamHeaders(answer)),
         End(500, SetHeader(StreamHeaders(answer), "Content-Type", JsonType),
             BytesBody(StreamErrorText))}
        \cup {End(StatusReady, StreamHeaders(answer),
                  BytesBody(PrefixText(k) \o StreamErrorText)) : k \in 1..Len(answer.chunks)}

\* the responses the request of f gets when handled alone, given the
\* configuration and the upstream's reply to its own call
AloneResponses(f) ==
    LET e == f.req.endpoint IN
    IF f.req.method = "OPTIONS" THEN {Preflight(e)}
    ELSE IF f.req.method # (IF e = "results" THEN "GET" ELSE "POST") THEN {MethodNotAllowed(e)}
    ELSE IF env = <<>> THEN {InternalError(e)}
    ELSE IF e # "results" /\ ~Validate(f.req).ok THEN {Rejected(e, Validate(f.req))}
    ELSE IF f.up.status = 0 THEN {InternalError(e)}
    ELSE IF e # "results" THEN {Relay(e, f.up)}
    ELSE IF f.up.status # StatusReady THEN {RelayLookup(f.up)}
    ELSE AloneStreamed(f.up)

\* C32: the handlers keep no state between invocations: under every
\* interleaving of two invocations, each finished invocation has made the
\* fetch calls of its own request and answered with a response that its
\* request, the configuration and the upstream's reply to its own call give
\* when the request is handled alone.
C32_InvocationsIndependent ==
    \A f \in {Running, parked} :
        f.hpc = "done" =>
            /\ f.upCalls = AloneCalls(f)
            /\ f.res \in AloneResponses(f)

\* both invocations finished, one having streamed its 200 while the other
\* was rejected in between
C32_Witness ==
    /\ hpc = "done" /\ req.endpoint = "results" /\ up.status = StatusReady
    /\ res.status = StatusReady /\ res.body.text = Concat(up.chunks)
    /\ "Content-Length" \notin DOMAIN res.headers
    /\ parked.hpc = "done" /\ parked.req.endpoint = "dm" /\ parked.res.status = 400

(***************************************************************************)
(* One polling session whose fetch calls, body reads and timers complete.  *)
(***************************************************************************)
\* an await of the session settles: fetch, resp.text() or the timer
Completes(s) ==
    \/ \E status \in Statuses : FetchResponds(s, status)
    \/ FetchFails(s)
    \/ FetchAborted(s)
    \/ BodyRead(s)
    \/ TimerFires(s)

SpecLive == Init /\ [][Next]_vars /\ WF_vars(Completes(1))

(***************************************************************************)
(* Claims about the polling loop (Spec, SpecLive).                         *)
(***************************************************************************)
\* C33: in each iteration the progress callback is invoked at most once
\* for the fetch call of that iteration, with the status of that call's
\* outcome: the HTTP status of the response, and 0 only when the fetch
\* failed at transport level.
C33_OneTickPerFetch ==
    \A s \in Sessions :
        /\ Len(log[s].ticks) <= 1
        /\ \A k \in 1..Len(log[s].ticks) : log[s].ticks[k] = log[s].lastStatus

\* C34: the session never sits in a backoff wait while its signal is
\* aborted, whenever the abort arrived.
C34_NoWaitWhileAborted ==
    \A s \in Sessions : ~(pc[s] = "waiting" /\ hasSignal[s] /\ aborted[s])

\* C35: every session terminates: when every fetch call and timer
\* completes, a started session reaches one of Ready, Rejected, Timed Out,
\* Cancelled, after at most 61 fetch calls and 60 waits, and does no fetch,
\* wait or progress callback after that.
C35_SessionTerminates ==
    /\ [](\A s \in Sessions :
             /\ pc[s] = "done" <=> outcome[s] \in {"ready", "rejected", "timedout", "cancelled"}
             /\ log[s].fetchCalls <= DefaultMaxAttempts + 1
             /\ log[s].waits <= DefaultMaxAttempts)
    /\ [][\A s \in Sessions :
             pc[s] = "done" =>
                 /\ pc'[s] = "done" /\ outcome'[s] = outcome[s]
                 /\ log'[s] = log[s] /\ timer'[s] = 0]_vars
    /\ (pc[1] # "idle") ~> (pc[1] = "done")

C35_Witness ==
    /\ pc[1] = "done" /\ outcome[1] = "timedout"
    /\ log[1].fetchCalls = DefaultMaxAttempts + 1
    /\ log[1].waits = DefaultMaxAttempts

(***************************************************************************)
(* CsvInput.vue: the widget's validate() and the handlers that run it.     *)
(***************************************************************************)
REQUIRED_HEADER == Chars("userName,userLink,directMessage")

\* the default of the property allowedHeaders
allowedHeaders == <<REQUIRED_HEADER, Chars("userName,userLink")>>

\* the default of the property maxRows (the widget's own MAX_TARGETS)
maxRows == 300

\* if (props.maxRows && count > props.maxRows)
ExceedsMaxRowsAtLimit(count) == maxRows # 0 /\ count >= maxRows
ExceedsMaxRows(count) == maxRows # 0 /\ count > maxRows

\* what validate() leaves in error, info, rows and emits as 'validity'
Emitted(ok, reason, count, error, info, rows) ==
    [validity |-> [ok |-> ok, reason |-> reason, count |-> count],
     error |-> error, info |-> info, rows |-> rows]

validate(text) ==
    LET t == StripBom(text)
        lines == SplitLines(t)
        header == Trim(lines[1])
        count == Cardinality({k \in 2..Len(lines) : Trim(lines[k]) # <<>>})
    IN  IF Trim(t) = <<>> THEN Emitted(FALSE, "EMPTY", 0, "", "", 0)
        ELSE IF ~\E k \in 1..Len(allowedHeaders) : allowedHeaders[k] = header
        THEN Emitted(FALSE, "INVALID_HEADER", 0, "Invalid header. Expected one of: ...", "", 0)
        ELSE IF count = 0
        THEN Emitted(FALSE, "EMPTY_ROWS", 0, "No rows found after header.", "", 0)
        ELSE IF ExceedsMaxRows(count)
        THEN Emitted(FALSE, "TOO_MANY_ROWS", 0,
                     "Too many rows: ${count}. Maximum allowed is ${props.maxRows}.", "", count)
        ELSE Emitted(TRUE, "none", count, "", "Validated ${count} rows.", count)

\* watch(text, ...): emit('update:modelValue', text.value); validate()
Validated(w) ==
    LET e == validate(w.text) IN
    [w EXCEPT !.validity = e.validity, !.error = e.error, !.info = e.info, !.rows = e.rows]

\* the user pastes into the empty textarea, or onFileChange sets text from a file
SetText(csv) ==
    /\ widget.text = <<>>
    /\ csv # <<>>
    /\ widget' = Validated([widget EXCEPT !.text = csv])
    /\ UNCHANGED <<pollVars, it, yields, proxyVars, rewriteVars>>

\* onModeChange: 'file' empties the text, and the watcher validates when it changed
onModeChange(value) ==
    /\ value # widget.mode
    /\ LET cleared == [widget EXCEPT !.mode = value, !.error = "", !.info = "", !.rows = 0,
                                     !.text = IF value = "file" THEN <<>> ELSE @]
       IN widget' = IF cleared.text # widget.text THEN Validated(cleared) ELSE cleared
    /\ UNCHANGED <<pollVars, it, yields, proxyVars, rewriteVars>>

InitWidget == InitOf({})
NextWidget ==
    \/ \E shape \in Shapes : SetText(BuildCsv(shape))
    \/ \E value \in {"paste", "file"} : onModeChange(value)

SpecWidget == InitWidget /\ [][NextWidget]_vars

(***************************************************************************)
(* Claim about the widget and the proxy (SpecWidget).                      *)
(***************************************************************************)
\* C36: for every CSV text with a non-whitespace character the widget
\* (default properties) reports valid exactly when validateCsv returns ok,
\* with the same row count, and otherwise both give the same reason code.
C36_WidgetAgreesWithProxy ==
    (widget.validity # NoValidity /\ ~IsBlank(widget.text)) =>
        LET v == validateCsv(widget.text)
            w == widget.validity
        IN  /\ w.ok <=> v.ok
            /\ v.ok => w.count = v.count
            /\ ~v.ok => (w.reason = v.code
                         /\ v.code \in {"INVALID_HEADER", "EMPTY_ROWS", "TOO_MANY_ROWS"})

\* a text of exactly MAX_TARGETS rows, with the two-column header
C36_Witness ==
    /\ widget.validity.ok /\ widget.validity.count = MAX_TARGETS
    /\ validateCsv(widget.text) = Valid(MAX_TARGETS)
    /\ Trim(SplitLines(widget.text)[1]) = Header2

====
